---- MODULE Spec2Model ----
(***************************************************************************)
(* Ray tracing scripts of lenstools (scripts/raytracing.py): the map       *)
(* script singleRedshift and the catalog script simulatedCatalog, run by   *)
(* every task of the MPI pool, and the RayTracer they drive.               *)
(*                                                                         *)
(* Numbers.  Comoving distances and redshifts are positive integers.  The  *)
(* jacobian returned by the ray tracer is a tuple <<J0,J1,J2,J3>> in fixed *)
(* point with unit 1/One.  A map or catalog column holds its values in     *)
(* half units, 1/(2*One): multiplying by 0.5 is exact in binary floating   *)
(* point, and in half units it is exact here too.                          *)
(***************************************************************************)
EXTENDS Integers, Sequences, FiniteSets, TLC

\* ------------------------------------------------------------------ bounds
MaxTasks == 3
MaxRealizations == 4
MaxSnapshots == 2
MaxFiles == 2
MaxCalls == 4
GridSide == 2
MaxSeed == 2
Modulus == 16
MaxParticles == 6

\* fixed point unit of the jacobian
One == 4

\* a pixel of a plane is Sub units of position wide
Sub == 2

\* the width of a plane, in units of position
PlaneSize == GridSide * Sub

Distances == {1, 2, 3}
Redshifts == {1, 2, 3}
Fields == {0, 1}
Units == {"Mpc/h", "Mpc"}
GalaxyCounts == {0, 1, 2}

\* ----------------------------------------------------------------- helpers
Range(lo, hi) == lo..(hi - 1)

RECURSIVE SumSeq(_)
SumSeq(q) == IF q = <<>> THEN 0 ELSE q[1] + SumSeq(Tail(q))

SeqsUpTo(S, n) == UNION {[1..m -> S] : m \in 0..n}

Min(a, b) == IF a <= b THEN a ELSE b

\* 2x2 matrices are tuples <<m11, m12, m21, m22>>, vectors are pairs
Identity == <<1, 0, 0, 1>>

ZeroMatrix == <<0, 0, 0, 0>>

MatAdd(A, B) == [i \in 1..4 |-> A[i] + B[i]]

MatScale(c, A) == [i \in 1..4 |-> c * A[i]]

MatMul(A, B) ==
  << A[1]*B[1] + A[2]*B[3], A[1]*B[2] + A[2]*B[4],
     A[3]*B[1] + A[4]*B[3], A[3]*B[2] + A[4]*B[4] >>

VecAdd(a, b) == [i \in 1..2 |-> a[i] + b[i]]

VecScale(c, a) == [i \in 1..2 |-> c * a[i]]

\* ------------------------------------------------------ the random generator
\* numpy's global generator: one of Modulus states, set by seed and moved on by
\* every draw; seeds lists the values it was seeded with, draws counts the
\* draws since
NoGenerator == [seeds |-> <<>>, state |-> 0, draws |-> 0]

\* np.random.seed(n)
seed(g, n) == [g EXCEPT !.seeds = Append(@, n), !.state = n % Modulus, !.draws = 0]

Advance(x) == (5 * x + 3) % Modulus

\* np.random.randint(low=0,high=high), one value; high is not 0
randint(g, high) ==
  LET x == Advance(g.state)
  IN [value |-> (x \div 2) % high, rng |-> [g EXCEPT !.state = x, !.draws = @ + 1]]

\* np.random.randint(low=0,high=high,size=n): n values, drawn one after the other
RECURSIVE randints(_, _, _)
randints(g, high, n) ==
  IF n = 0 THEN [values |-> <<>>, rng |-> g]
  ELSE LET d == randint(g, high)
           rest == randints(d.rng, high, n - 1)
       IN [values |-> <<d.value>> \o rest.values, rng |-> rest.rng]

\* ------------------------------------------------ the RayTracer (registry)
\* A lens is the triple handed to addLens, (plane file, distance, redshift);
\* field stands for the content of the plane file: 0 is a deflection field
\* that is identically zero.
\* the triple with distance and redshift in each other's place
LensSwapped(snapshot, distance, redshift, field) ==
  [snapshot |-> snapshot, distance |-> redshift, redshift |-> distance, field |-> field,
   file |-> <<>>, unit |-> "Mpc/h", collection |-> 0]

\* file is the plane file: <<ic, snapshot, cut point, normal>>, <<>> when no
\* file was chosen among the candidates; unit is the unit of the distance
Lens(snapshot, distance, redshift, field) ==
  [snapshot |-> snapshot, distance |-> distance, redshift |-> redshift, field |-> field,
   file |-> <<>>, unit |-> "Mpc/h", collection |-> 0]

NoTracer == [made |-> FALSE]

\* RayTracer(): no lens, not reordered, not propagating, no plane loaded;
\* requests and loads list the planes the integrator asked for and the planes
\* whose grid was read from its file, in the order it happened
RayTracer ==
  [made |-> TRUE, lenses |-> <<>>, ordered |-> FALSE, calls |-> <<>>,
   state |-> "idle", s |-> 0, visited |-> <<>>, loaded |-> {},
   requests |-> <<>>, loads |-> <<>>, rolls |-> <<>>,
   chi |-> 0, rays |-> <<>>, error |-> ""]

\* addLens after reorderLenses is a configuration error
AddLensRefused(t) == t.ordered

addLens(t, lens) ==
  IF AddLensRefused(t)
    THEN [t EXCEPT !.error = "ConfigurationError", !.calls = Append(@, "addLens!")]
    ELSE [t EXCEPT !.lenses = Append(@, lens), !.calls = Append(@, "addLens")]

\* stable insertion of one lens into a sequence sorted by distance
RECURSIVE InsertByDistance(_, _)
InsertByDistance(lens, q) ==
  IF q = <<>> THEN <<lens>>
  ELSE IF lens.distance < q[1].distance THEN <<lens>> \o q
  ELSE <<q[1]>> \o InsertByDistance(lens, Tail(q))

RECURSIVE SortByDistance(_)
SortByDistance(q) ==
  IF q = <<>> THEN <<>>
  ELSE InsertByDistance(q[Len(q)], SortByDistance(SubSeq(q, 1, Len(q) - 1)))

\* reorderLenses(): sort the descriptors by ascending distance
reorderLenses(t) ==
  [t EXCEPT !.lenses = SortByDistance(@), !.ordered = TRUE,
            !.calls = Append(@, "reorderLenses")]

\* reorderLenses(): a random translation <<dx, dy>> for every plane, two draws
\* of the global generator each
rollLenses(t, g) ==
  LET drawn == randints(g, PlaneSize, 2 * Len(t.lenses))
  IN [tracer |-> [t EXCEPT !.rolls = [i \in 1..Len(t.lenses) |->
                                        <<drawn.values[2 * i - 1], drawn.values[2 * i]>>]],
      rng |-> drawn.rng]

\* ---------------------------------------------- the RayTracer (integrator)
\* the cosmology collaborator: comoving distance of a redshift
ComovingDistance(z) == 2 * z

\* the sampler's answer on a plane: deflection and its derivative (per unit
\* of comoving length), both zero on a plane whose field is zero; the planes
\* of different snapshots differ
Deflection(lens) == VecScale(lens.field, <<1, lens.snapshot>>)

DeflectionJacobian(lens) == MatScale(lens.field, <<lens.snapshot, 1, 1, -lens.snapshot>>)

\* a guard that lets equal distances through
AscendingOrEqual(q) == \A i \in 1..(Len(q) - 1) : q[i].distance <= q[i + 1].distance

StrictlyAscending(q) == \A i \in 1..(Len(q) - 1) : q[i].distance < q[i + 1].distance

\* a ray at the observer: transverse comoving position X = 0, dX/dchi = theta,
\* jacobian of X zero, jacobian of dX/dchi the identity
NewRay(theta, z) ==
  [theta |-> theta, target |-> z, X |-> <<0, 0>>, V |-> theta,
   JX |-> ZeroMatrix, JV |-> Identity, done |-> FALSE,
   position |-> <<0, 0>>, jacobian |-> ZeroMatrix]

\* the ray brought to the source at comoving distance chi_src, from chi_from
AtSource(ray, chi_from, chi_src) ==
  LET X == VecAdd(ray.X, VecScale(chi_src - chi_from, ray.V))
      JX == MatAdd(ray.JX, MatScale(chi_src - chi_from, ray.JV))
  IN [ray EXCEPT !.done = TRUE,
                 !.position = [i \in 1..2 |-> (One * X[i]) \div chi_src],
                 !.jacobian = [i \in 1..4 |-> (One * JX[i]) \div chi_src]]

\* one ray at plane `lens` (the last one when `last`); chi is the distance of
\* the plane before it (0 at the observer)
RayAtPlane(ray, lens, chi, last) ==
  IF ray.done THEN ray
  ELSE IF lens.redshift >= ray.target
    THEN AtSource(ray, chi, ComovingDistance(ray.target))
  ELSE
    LET X == VecAdd(ray.X, VecScale(lens.distance - chi, ray.V))
        JX == MatAdd(ray.JX, MatScale(lens.distance - chi, ray.JV))
        kicked == [ray EXCEPT !.X = X, !.JX = JX,
                     !.V = VecAdd(ray.V, VecScale(-1, Deflection(lens))),
                     !.JV = MatAdd(ray.JV, MatScale(-1, MatMul(DeflectionJacobian(lens), JX)))]
    IN IF last THEN AtSource(kicked, lens.distance, ComovingDistance(ray.target))
       ELSE kicked

\* propagation is refused before reorderLenses, on an empty sequence, and on
\* distances that do not strictly increase
ShootRefused(t) ==
  \/ ~t.ordered
  \/ t.lenses = <<>>
  \/ ~StrictlyAscending(t.lenses)

\* shoot(pos, z): the integrator starts at plane 0
shoot(t, thetas, targets) ==
  IF ShootRefused(t)
    THEN [t EXCEPT !.error = IF ~t.ordered \/ t.lenses = <<>>
                               THEN "ConfigurationError" ELSE "InvariantViolation",
                   !.calls = Append(@, "shoot!")]
    ELSE [t EXCEPT !.state = "shooting", !.s = 0, !.chi = 0, !.visited = <<>>,
                   !.rays = [i \in 1..Len(thetas) |-> NewRay(thetas[i], targets[i])],
                   !.calls = Append(@, "shoot")]

\* the integrator at plane t.s: every ray meets the plane; the integrator is
\* through when every ray has reached its source
PlaneStep(t) ==
  LET lens == t.lenses[t.s + 1]
      last == t.s + 1 = Len(t.lenses)
      rays == [i \in 1..Len(t.rays) |-> RayAtPlane(t.rays[i], lens, t.chi, last)]
      through == \A i \in 1..Len(rays) : rays[i].done
  IN [t EXCEPT !.rays = rays, !.visited = Append(@, t.s),
               !.loaded = @ \cup {t.s},
               !.requests = Append(@, t.s),
               !.loads = IF t.s \in t.loaded THEN @ ELSE Append(@, t.s),
               !.chi = lens.distance,
               !.s = IF through THEN @ ELSE @ + 1,
               !.state = IF through THEN "done" ELSE "shooting"]

\* ------------------------------------------------- the RayTracer (sampler)
\* The deflection grid of a plane: two components on a periodic grid of
\* GridSide x GridSide pixels, grid[c][i][j] with i, j counted from 0.  The
\* plane is PlaneSize units of position wide; a query position is a pair of
\* integers in these units and may lie outside 0..PlaneSize-1.  Sampled
\* values are in units of 1/Sub^2, derivatives in units of 1/Sub per pixel.

\* a coordinate outside the plane moved to the nearest edge
WrapClamped(x) == IF x < 0 THEN 0 ELSE IF x >= PlaneSize THEN PlaneSize - 1 ELSE x

\* periodic boundary conditions
Wrap(x) == x % PlaneSize

Pixel(x) == Wrap(x) \div Sub

Offset(x) == Wrap(x) % Sub

NextPixel(i) == (i + 1) % GridSide

\* bilinear interpolation of one component g at position <<x, y>>
Bilinear(g, x, y) ==
  LET i == Pixel(x)
      j == Pixel(y)
      a == Offset(x)
      b == Offset(y)
  IN (Sub - a) * (Sub - b) * g[i][j] + a * (Sub - b) * g[NextPixel(i)][j]
       + (Sub - a) * b * g[i][NextPixel(j)] + a * b * g[NextPixel(i)][NextPixel(j)]

\* the derivatives of the interpolant along x and along y
GradientX(g, x, y) ==
  LET i == Pixel(x)
      j == Pixel(y)
      b == Offset(y)
  IN (Sub - b) * (g[NextPixel(i)][j] - g[i][j])
       + b * (g[NextPixel(i)][NextPixel(j)] - g[i][NextPixel(j)])

GradientY(g, x, y) ==
  LET i == Pixel(x)
      j == Pixel(y)
      a == Offset(x)
  IN (Sub - a) * (g[i][NextPixel(j)] - g[i][j])
       + a * (g[NextPixel(i)][NextPixel(j)] - g[NextPixel(i)][j])

\* the sampler at one query position: the deflection and its jacobian
Sample(grid, q) ==
  [alpha |-> << Bilinear(grid[1], q[1], q[2]), Bilinear(grid[2], q[1], q[2]) >>,
   jacobian |-> << GradientX(grid[1], q[1], q[2]), GradientY(grid[1], q[1], q[2]),
                   GradientX(grid[2], q[1], q[2]), GradientY(grid[2], q[1], q[2]) >>]

\* ------------------------------------------------------- FastPMSnapshot
\* a limit is None or a particle index
None == [none |-> TRUE, index |-> 0]

Index(n) == [none |-> FALSE, index |-> n]

\* the limits where the remainder is left out
LimitsEven(Nt, Np, rank) ==
  [first |-> Index((Np \div Nt) * rank), last |-> Index((Np \div Nt) * (rank + 1))]

\* setLimits with a pool: part_per_task = Np//Nt particles from
\* part_per_task*rank on, and Np%Nt more for the last task
Limits(Nt, Np, rank) ==
  LET part_per_task == Np \div Nt
      first == part_per_task * rank
      last == part_per_task * (rank + 1)
  IN [first |-> Index(first),
      last |-> Index(IF Np % Nt # 0 /\ rank = Nt - 1 THEN last + (Np % Nt) ELSE last)]

\* rows[first:last] of non-negative first and last
Slice(rows, first, last) ==
  IF first >= Len(rows) \/ last <= first
    THEN <<>>
    ELSE SubSeq(rows, first + 1, IF last < Len(rows) THEN last ELSE Len(rows))

\* the particles of a file of Np, named by their index in the file
Particles(Np) == [i \in 1..Np |-> i - 1]

\* data["Position"][:] when a limit is None, data["Position"][first:last]
\* otherwise
Positions(rows, first, last) ==
  IF first.none \/ last.none THEN rows ELSE Slice(rows, first.index, last.index)

\* ------------------------------------------------------- the scripts' state
VARIABLES
  mode,                 \* "map": singleRedshift, "catalog": simulatedCatalog
  pool,                 \* FALSE: pool is None
  pool_size,            \* pool.size: the tasks are the ranks 0..pool.size
  settings,             \* the MapSettings / CatalogSettings
  info,                 \* the lines of info.txt
  catalogs,             \* the input position files (settings.input_files)
  pc,                   \* where each task stands
  err,                  \* the exception that ended a task
  first_realization, last_realization, r, s,
  tracer,               \* each task's RayTracer
  galaxies_in_catalog,
  catalog_subdirectory,
  written,              \* the files saved so far
  made,                 \* the directories created so far
  arrived,              \* the tasks that reached each barrier
  sampler,              \* a plane's grid, a query position and the sample there
  rng,                  \* each task's np.random generator
  randomizer,           \* each task's randomization matrix (simulatedCatalog)
  c_index,              \* each task's c, the collection chosen last (singleRedshift)
  snap                  \* each task's FastPMSnapshot of one file of particles

vars ==
  << mode, pool, pool_size, settings, info, catalogs, pc, err,
     first_realization, last_realization, r, s, tracer, galaxies_in_catalog,
     catalog_subdirectory, written, made, arrived, sampler, rng, randomizer,
     c_index, snap >>

random == << rng, randomizer, c_index >>

\* what no step of the scripts changes
inputs == << mode, pool, pool_size, settings, info, catalogs, sampler, snap >>

Ranks == 0..pool_size

\* pool.is_master(), or no pool at all
IsMaster(k) == ~pool \/ k = 0

\* the realizations asked for: lens_map_realizations / lens_catalog_realizations
Realizations == settings.lens_realizations

BlankLine == [blank |-> TRUE, snapshot |-> 0, distance |-> 0, unit |-> "", redshift |-> 0, field |-> 0]

InfoLine(n, d, un, z, f) ==
  [blank |-> FALSE, snapshot |-> n, distance |-> d, unit |-> un, redshift |-> z, field |-> f]

Fail(k, what) ==
  /\ pc' = [pc EXCEPT ![k] = "failed"]
  /\ err' = [err EXCEPT ![k] = what]

Goto(k, where) ==
  /\ pc' = [pc EXCEPT ![k] = where]
  /\ err' = err

\* every task seeds with settings.seed, whatever its rank
ConfigureSameSeed(k) ==
  /\ pc[k] = "start"
  /\ rng' = [rng EXCEPT ![k] = seed(@, settings.seed)]
  /\ Goto(k, IF mode = "map" THEN "partition" ELSE "catalogs")
  /\ UNCHANGED << inputs, randomizer, c_index, first_realization, last_realization, r, s,
                  tracer,
                  galaxies_in_catalog, catalog_subdirectory, written, made, arrived >>

\* id parsed, settings read, random seed set: settings.seed + pool.rank, or
\* settings.seed when there is no pool
Configure(k) ==
  /\ pc[k] = "start"
  /\ rng' = [rng EXCEPT ![k] = seed(@, IF pool THEN settings.seed + k ELSE settings.seed)]
  /\ Goto(k, IF mode = "map" THEN "partition" ELSE "catalogs")
  /\ UNCHANGED << inputs, randomizer, c_index, first_realization, last_realization, r, s,
                  tracer,
                  galaxies_in_catalog, catalog_subdirectory, written, made, arrived >>

\* ------------------------------------------------- simulatedCatalog: input
\* initial_positions[0,before:before+n] = column of n values: the slice of the
\* pre-allocated array of length total is cut at the array's end, and numpy
\* refuses n values for a slice of another length unless n is 1 (broadcast)
FillRefused(before, n, total) ==
  LET slice == Min(total, before + n) - Min(total, before)
  IN slice # n /\ n # 1

\* a check of the total that only catches too many galaxies
TotalRefusedAbove(counts, total) == SumSeq(counts) > total

\* assert reduce(add,galaxies_in_catalog)==total_num_galaxies
TotalRefused(counts, total) == SumSeq(counts) # total

\* the loop over settings.input_files from file i on, `counts` being
\* galaxies_in_catalog so far; then the check of the total
RECURSIVE ReadCatalogsFrom(_, _, _, _)
ReadCatalogsFrom(files, i, counts, total) ==
  IF i > Len(files)
    THEN IF counts = <<>>
           THEN [error |-> "TypeError", counts |-> counts, copied |-> i - 1]
         ELSE IF TotalRefused(counts, total)
           THEN [error |-> "AssertionError: total number of galaxies",
                 counts |-> counts, copied |-> i - 1]
         ELSE [error |-> "", counts |-> counts, copied |-> i - 1]
  ELSE IF files[i].aunit # settings.catalog_angle_unit
    THEN [error |-> "AssertionError: catalog angle units", counts |-> counts, copied |-> i - 1]
  ELSE IF FillRefused(SumSeq(counts), files[i].n, total)
    THEN [error |-> "ValueError", counts |-> Append(counts, files[i].n), copied |-> i]
  ELSE ReadCatalogsFrom(files, i + 1, Append(counts, files[i].n), total)

\* the copy of position file n the master saves beside the catalogs
PositionCopy(n) ==
  [kind |-> "positions", file |-> n, tag |-> 0, subdir |-> <<>>, by |-> 0, data |-> <<>>]

\* read the position files, fill initial_positions and galaxy_redshift, check
\* the total number of galaxies
ReadCatalogs(k) ==
  /\ pc[k] = "catalogs"
  /\ LET got == ReadCatalogsFrom(catalogs, 1, <<>>, settings.total_num_galaxies)
     IN /\ galaxies_in_catalog' = [galaxies_in_catalog EXCEPT ![k] = got.counts]
        /\ written' = IF IsMaster(k)
                        THEN written \cup {PositionCopy(n) : n \in 1..got.copied}
                        ELSE written
        /\ IF got.error # "" THEN Fail(k, got.error) ELSE Goto(k, "subdirectories")
  /\ UNCHANGED << inputs, random, first_realization, last_realization, r, s, tracer,
                  catalog_subdirectory, made, arrived >>

\* the galaxies of all the position files, in order: position and redshift
RECURSIVE GalaxiesOf(_, _)
GalaxiesOf(files, i) ==
  IF i > Len(files) THEN <<>>
  ELSE [j \in 1..files[i].n |-> [theta |-> <<j, i>>, z |-> files[i].z]]
         \o GalaxiesOf(files, i + 1)

\* ------------------------------------------- simulatedCatalog: directories
\* _subdirectories(num_realizations, realizations_in_subdir): the names
\* "<start>-<end>" are pairs <<start, end>>
SubdirectoriesRefused(num, per) == per = 0 \/ num % per # 0

SubdirectoryNames(num, per) ==
  IF num = per THEN <<>>
  ELSE [c \in 1..(num \div per) |-> <<(c - 1) * per + 1, c * per>>]

RealizationsInSubdir ==
  IF settings.has_realizations_per_subdirectory
    THEN settings.realizations_per_subdirectory
    ELSE Realizations

\* name the subdirectories; the master creates them
Subdirectories(k) ==
  /\ pc[k] = "subdirectories"
  /\ IF SubdirectoriesRefused(Realizations, RealizationsInSubdir)
       THEN /\ Fail(k, IF RealizationsInSubdir = 0 THEN "ZeroDivisionError"
                       ELSE "AssertionError: realizations in each subdirectory")
            /\ UNCHANGED << catalog_subdirectory, made >>
       ELSE LET names == SubdirectoryNames(Realizations, RealizationsInSubdir)
            IN /\ catalog_subdirectory' = [catalog_subdirectory EXCEPT ![k] = names]
               /\ made' = IF IsMaster(k)
                            THEN made \cup {names[c] : c \in 1..Len(names)}
                            ELSE made
               /\ Goto(k, "sync")
  /\ UNCHANGED << inputs, random, first_realization, last_realization, r, s, tracer,
                  galaxies_in_catalog, written, arrived >>

\* ----------------------------------------------------------- the barriers
\* pool.comm.Barrier(): a task enters, and leaves once every task has entered
BarrierEnter(k, here, b, wait, next) ==
  /\ pc[k] = here
  /\ IF pool
       THEN /\ arrived' = [arrived EXCEPT ![b] = @ \cup {k}]
            /\ Goto(k, wait)
       ELSE /\ arrived' = arrived
            /\ Goto(k, next)
  /\ UNCHANGED << inputs, random, first_realization, last_realization, r, s, tracer,
                  galaxies_in_catalog, catalog_subdirectory, written, made >>

\* a barrier a task leaves without waiting for the others
BarrierLeaveAlone(k, wait, b, next) ==
  /\ pc[k] = wait
  /\ Goto(k, next)
  /\ UNCHANGED << inputs, random, first_realization, last_realization, r, s, tracer,
                  galaxies_in_catalog, catalog_subdirectory, written, made, arrived >>

BarrierLeave(k, wait, b, next) ==
  /\ pc[k] = wait
  /\ arrived[b] = Ranks
  /\ Goto(k, next)
  /\ UNCHANGED << inputs, random, first_realization, last_realization, r, s, tracer,
                  galaxies_in_catalog, catalog_subdirectory, written, made, arrived >>

\* the barrier after the subdirectories are made
SyncEnter(k) == BarrierEnter(k, "sync", 1, "syncing", "partition")

\* a task that goes on to its realizations whether or not the master has
\* made the subdirectories
SyncLeaveAlone(k) == BarrierLeaveAlone(k, "syncing", 1, "partition")

SyncLeave(k) == BarrierLeave(k, "syncing", 1, "partition")

\* ------------------------------------------------ the realizations of a task
\* map_realizations//(pool.size+1)
RealizationsPerTask == Realizations \div (pool_size + 1)

\* the load-balancing assertion taken against pool.size, not pool.size+1
PartitionRefusedBySize == pool /\ pool_size > 0 /\ Realizations % pool_size # 0

\* the load-balancing assertion
PartitionRefused == pool /\ Realizations % (pool_size + 1) # 0

\* a first realization counted from 1
FirstRealizationFromOne(k) == IF pool THEN RealizationsPerTask * k + 1 ELSE 0

FirstRealization(k) == IF pool THEN RealizationsPerTask * k ELSE 0

LastRealization(k) == IF pool THEN RealizationsPerTask * (k + 1) ELSE Realizations

\* decide which realizations this task takes care of
Partition(k) ==
  /\ pc[k] = "partition"
  /\ IF PartitionRefused
       THEN /\ Fail(k, "AssertionError: perfect load-balancing")
            /\ UNCHANGED << first_realization, last_realization, r >>
       ELSE /\ first_realization' = [first_realization EXCEPT ![k] = FirstRealization(k)]
            /\ last_realization' = [last_realization EXCEPT ![k] = LastRealization(k)]
            /\ r' = [r EXCEPT ![k] = FirstRealization(k)]
            /\ Goto(k, "randomize")
  /\ UNCHANGED << inputs, random, s, tracer, galaxies_in_catalog, catalog_subdirectory,
                  written, made, arrived >>

\* the candidates of the randomization: settings.mix_nbody_realizations,
\* settings.mix_cut_points, settings.mix_normals
nbody_realizations == settings.mix_nbody_realizations

cut_points == settings.mix_cut_points

normals == settings.mix_normals

\* the matrix filled one row at a time, as far as row rows
RandomizerRows(g, realizations, snapshots, rows) ==
  LET n == realizations * snapshots
      ic == randints(g, Len(nbody_realizations), n)
      cut == randints(ic.rng, Len(cut_points), n)
      normal == randints(cut.rng, Len(normals), n)
  IN [matrix |-> [i \in 1..rows |-> [j \in 1..snapshots |->
                    << ic.values[(i - 1) * snapshots + j],
                       cut.values[(i - 1) * snapshots + j],
                       normal.values[(i - 1) * snapshots + j] >>]],
      rng |-> normal.rng]

\* a matrix of which only the row of the first realization is drawn
RandomizerFirstRow(g, realizations, snapshots) ==
  RandomizerRows(g, realizations, snapshots, Min(1, realizations))

\* randomizer[:,:,0], [:,:,1], [:,:,2] = np.random.randint(low=0,high=len(..),
\* size=(catalog_realizations,num_snapshots)): entry [r,s,c] is
\* matrix[r+1][s+1][c+1]
Randomizer(g, realizations, snapshots) ==
  RandomizerRows(g, realizations, snapshots, realizations)

\* the path of the planes and of info.txt, the number of snapshots and, in
\* simulatedCatalog, the randomization matrix
Randomize(k) ==
  /\ pc[k] = "randomize"
  /\ IF nbody_realizations = <<>>
       THEN /\ Fail(k, "IndexError")
            /\ UNCHANGED random
     ELSE IF mode = "map"
       THEN /\ Goto(k, "loop")
            /\ UNCHANGED random
     ELSE IF cut_points = <<>> \/ normals = <<>>
       THEN /\ Fail(k, "ValueError: low >= high")
            /\ UNCHANGED random
     ELSE LET drawn == Randomizer(rng[k], Realizations, Len(info))
          IN /\ randomizer' = [randomizer EXCEPT ![k] = drawn.matrix]
             /\ c_index' = c_index
             /\ rng' = [rng EXCEPT ![k] = drawn.rng]
             /\ Goto(k, "loop")
  /\ UNCHANGED << inputs, first_realization, last_realization, r, s, tracer,
                  galaxies_in_catalog, catalog_subdirectory, written, made, arrived >>

\* one RayTracer made before the loop and used for every realization
NextRealizationSameTracer(k) ==
  /\ pc[k] = "loop"
  /\ IF r[k] < last_realization[k]
       THEN /\ tracer' = [tracer EXCEPT ![k] = IF @.made THEN @ ELSE RayTracer]
            /\ s' = [s EXCEPT ![k] = 0]
            /\ Goto(k, "lenses")
       ELSE /\ UNCHANGED << tracer, s >>
            /\ Goto(k, "barrier")
  /\ UNCHANGED << inputs, random, first_realization, last_realization, r,
                  galaxies_in_catalog, catalog_subdirectory, written, made, arrived >>

\* a new RayTracer that is handed the planes the last one had loaded
NextRealizationKeepsPlanes(k) ==
  /\ pc[k] = "loop"
  /\ IF r[k] < last_realization[k]
       THEN /\ tracer' = [tracer EXCEPT ![k] =
                           IF @.made THEN [RayTracer EXCEPT !.loaded = tracer[k].loaded]
                           ELSE RayTracer]
            /\ s' = [s EXCEPT ![k] = 0]
            /\ Goto(k, "lenses")
       ELSE /\ UNCHANGED << tracer, s >>
            /\ Goto(k, "barrier")
  /\ UNCHANGED << inputs, random, first_realization, last_realization, r,
                  galaxies_in_catalog, catalog_subdirectory, written, made, arrived >>

\* for r in range(first,last): tracer = RayTracer(), the info file opened
NextRealization(k) ==
  /\ pc[k] = "loop"
  /\ IF r[k] < last_realization[k]
       THEN /\ tracer' = [tracer EXCEPT ![k] = RayTracer]
            /\ s' = [s EXCEPT ![k] = 0]
            /\ Goto(k, "lenses")
       ELSE /\ UNCHANGED << tracer, s >>
            /\ Goto(k, "barrier")
  /\ UNCHANGED << inputs, random, first_realization, last_realization, r,
                  galaxies_in_catalog, catalog_subdirectory, written, made, arrived >>

\* readlines(): the number of lines of info.txt
num_snapshots == Len(info)

\* the unit of the distance of a line: model.Mpc_over_h, or getattr(u,"unit"),
\* an attribute astropy.units does not have
UnitRefused(line) == line.unit # "Mpc/h"

\* float(distance)*model.Mpc_over_h for a line in Mpc/h; for any other unit
\* float(distance)*getattr(u,"unit"), the attribute looked up being the one
\* named "unit", which the units module does not have
ParsedDistance(line) ==
  IF line.unit = "Mpc/h"
    THEN [error |-> "", value |-> line.distance, unit |-> "Mpc/h"]
    ELSE [error |-> "AttributeError", value |-> 0, unit |-> "unit"]

\* snap<N>_potentialPlane<cut>_normal<normal>.fits under ic<ic>
\* c before any pass of the loop over cut_redshifts has assigned it
Unbound == -1

\* for n,z in enumerate(cut_redshifts): if lens_redshift>=z: c = n
\* c keeps the value it had when no cut redshift is at or below the lens
SelectCollection(cuts, lens_redshift, before) ==
  LET hits == {n \in 1..Len(cuts) : lens_redshift >= cuts[n]}
  IN IF hits = {} THEN before ELSE (CHOOSE n \in hits : \A m \in hits : m <= n) - 1

\* [0.0] of one collection, map_batch.redshifts of a telescopic map set
cut_redshifts == settings.cut_redshifts

\* the value of c as task k works on line `line`; simulatedCatalog has one
\* collection and no c
Collection(k, line) ==
  IF mode = "map"
    THEN SelectCollection(cut_redshifts, line.redshift, c_index[k])
    ELSE 0

PlaneName(ic, snapshot, cut, normal) == <<ic, snapshot, cut, normal>>

\* the plane file of a line, chosen among the candidates: three draws in
\* singleRedshift, the row [r,s] of the randomization matrix in simulatedCatalog
ChosenPlane(k, line) ==
  IF mode = "map"
    THEN IF cut_points = <<>> \/ normals = <<>>
           THEN [error |-> "ValueError: low >= high", file |-> <<>>, rng |-> rng[k]]
         ELSE LET nbody == randint(rng[k], Len(nbody_realizations))
                  cut == randint(nbody.rng, Len(cut_points))
                  normal == randint(cut.rng, Len(normals))
              IN [error |-> "",
                  file |-> PlaneName(nbody_realizations[nbody.value + 1], line.snapshot,
                                     cut_points[cut.value + 1], normals[normal.value + 1]),
                  rng |-> normal.rng]
  ELSE LET row == randomizer[k][r[k] + 1][s[k] + 1]
       IN [error |-> "",
           file |-> PlaneName(nbody_realizations[row[1] + 1], line.snapshot,
                              cut_points[row[2] + 1], normals[row[3] + 1]),
           rng |-> rng[k]]

\* a loop over the snapshots that steps over an empty line
ReadLinePastEmpty(k) ==
  /\ pc[k] = "lenses"
  /\ IF s[k] >= num_snapshots
       THEN /\ Goto(k, "reorder")
            /\ UNCHANGED << tracer, s, rng, c_index >>
     ELSE IF info[s[k] + 1].blank
       THEN /\ Goto(k, "lenses")
            /\ s' = [s EXCEPT ![k] = @ + 1]
            /\ UNCHANGED << tracer, rng, c_index >>
     ELSE LET line == info[s[k] + 1]
              plane == ChosenPlane(k, line)
              t == addLens(tracer[k],
                           [Lens(line.snapshot, ParsedDistance(line).value, line.redshift,
                                 line.field)
                              EXCEPT !.file = plane.file, !.unit = ParsedDistance(line).unit,
                                     !.collection = Collection(k, line)])
          IN IF UnitRefused(line) \/ Collection(k, line) = Unbound
                \/ plane.error # "" \/ t.error # ""
               THEN /\ Fail(k, "AttributeError")
                    /\ UNCHANGED << tracer, s, rng, c_index >>
             ELSE /\ tracer' = [tracer EXCEPT ![k] = t]
                  /\ rng' = [rng EXCEPT ![k] = plane.rng]
                  /\ c_index' = [c_index EXCEPT ![k] = IF mode = "map" THEN Collection(k, line) ELSE @]
                  /\ s' = [s EXCEPT ![k] = @ + 1]
                  /\ Goto(k, "lenses")
  /\ UNCHANGED << inputs, randomizer, first_realization, last_realization, r,
                  galaxies_in_catalog, catalog_subdirectory, written, made, arrived >>

\* one pass of the loop over the snapshots: read a line, stop at an empty one,
\* else add its lens
ReadLine(k) ==
  /\ pc[k] = "lenses"
  /\ IF s[k] >= num_snapshots \/ info[s[k] + 1].blank
       THEN /\ Goto(k, "reorder")
            /\ UNCHANGED << tracer, s, rng, c_index >>
       ELSE LET line == info[s[k] + 1]
                plane == ChosenPlane(k, line)
                chosen == [c_index EXCEPT ![k] = IF mode = "map" THEN Collection(k, line) ELSE @]
                t == addLens(tracer[k],
                             [Lens(line.snapshot, ParsedDistance(line).value, line.redshift,
                                   line.field)
                                EXCEPT !.file = plane.file, !.unit = ParsedDistance(line).unit,
                                       !.collection = Collection(k, line)])
            IN IF UnitRefused(line)
                 THEN /\ Fail(k, "AttributeError")
                      /\ UNCHANGED << tracer, s, rng, c_index >>
               ELSE IF Collection(k, line) = Unbound
                 THEN /\ Fail(k, "UnboundLocalError")
                      /\ UNCHANGED << tracer, s, rng, c_index >>
               ELSE IF plane.error # ""
                 THEN /\ Fail(k, plane.error)
                      /\ c_index' = chosen
                      /\ UNCHANGED << tracer, s, rng >>
               ELSE IF t.error # ""
                 THEN /\ Fail(k, t.error)
                      /\ c_index' = chosen
                      /\ UNCHANGED << tracer, s, rng >>
               ELSE /\ tracer' = [tracer EXCEPT ![k] = t]
                    /\ rng' = [rng EXCEPT ![k] = plane.rng]
                    /\ c_index' = chosen
                    /\ s' = [s EXCEPT ![k] = @ + 1]
                    /\ Goto(k, "lenses")
  /\ UNCHANGED << inputs, randomizer, first_realization, last_realization, r,
                  galaxies_in_catalog, catalog_subdirectory, written, made, arrived >>

\* the lenses left as they were added
ReorderSkipped(k) ==
  /\ pc[k] = "reorder"
  /\ tracer' = tracer
  /\ Goto(k, "shoot")
  /\ UNCHANGED << inputs, random, first_realization, last_realization, r, s,
                  galaxies_in_catalog, catalog_subdirectory, written, made, arrived >>

\* tracer.reorderLenses(): the lenses sorted, then rolled
Reorder(k) ==
  /\ pc[k] = "reorder"
  /\ LET rolled == rollLenses(reorderLenses(tracer[k]), rng[k])
     IN /\ tracer' = [tracer EXCEPT ![k] = rolled.tracer]
        /\ rng' = [rng EXCEPT ![k] = rolled.rng]
  /\ Goto(k, "shoot")
  /\ UNCHANGED << inputs, randomizer, c_index, first_realization, last_realization, r, s,
                  galaxies_in_catalog, catalog_subdirectory, written, made, arrived >>

\* np.linspace(0.0,map_angle,resolution)
Linspace(angle, n) == [i \in 1..n |-> IF n = 1 THEN 0 ELSE (angle * (i - 1)) \div (n - 1)]

\* the regular grid of initial positions, np.meshgrid(b,b), row by row
MapGrid ==
  LET n == settings.map_resolution
      b == Linspace(settings.map_angle, n)
  IN [i \in 1..(n * n) |-> << b[((i - 1) % n) + 1], b[((i - 1) \div n) + 1] >>]

\* initial_positions and galaxy_redshift as pre-allocated: zeros
NoGalaxy == [theta |-> <<0, 0>>, z |-> 0]

\* the slices [galaxies_before:galaxies_before+len(position_catalog)] of the
\* arrays filled with the columns of position file i, then of the files
\* after it; galaxies_before is the number of galaxies of the files read
RECURSIVE FilledFrom(_, _, _, _)
FilledFrom(array, files, i, counts) ==
  IF i > Len(files) THEN array
  ELSE LET galaxies_before == SumSeq(counts)
       IN FilledFrom([j \in 1..Len(array) |->
                        IF j \in (galaxies_before + 1)..(galaxies_before + files[i].n)
                          THEN [theta |-> <<j - galaxies_before, i>>, z |-> files[i].z]
                          ELSE array[j]],
                     files, i + 1, Append(counts, files[i].n))

\* the two arrays after the loop over settings.input_files
Galaxies ==
  FilledFrom([j \in 1..settings.total_num_galaxies |-> NoGalaxy], catalogs, 1, <<>>)

\* the rays handed to shoot: initial positions and source redshifts
InitialPositions ==
  IF mode = "map" THEN MapGrid
  ELSE LET g == Galaxies IN [i \in 1..Len(g) |-> g[i].theta]

\* every ray sent one redshift too far
SourceRedshiftsBeyond ==
  IF mode = "map" THEN [i \in 1..Len(MapGrid) |-> settings.source_redshift + 1]
  ELSE LET g == Galaxies IN [i \in 1..Len(g) |-> g[i].z + 1]

\* no ray sent farther than the farthest plane of info.txt
SourceRedshiftsCapped ==
  LET zs == {info[i].redshift : i \in {j \in 1..Len(info) : ~info[j].blank}}
      farthest == IF zs = {} THEN 0 ELSE CHOOSE z \in zs : \A y \in zs : y <= z
      g == Galaxies
  IN IF mode = "map"
       THEN [i \in 1..Len(MapGrid) |-> Min(settings.source_redshift, farthest)]
       ELSE [i \in 1..Len(g) |-> Min(g[i].z, farthest)]

SourceRedshifts ==
  IF mode = "map" THEN [i \in 1..Len(MapGrid) |-> settings.source_redshift]
  ELSE LET g == Galaxies IN [i \in 1..Len(g) |-> g[i].z]

\* jacobian = tracer.shoot(pos,z,kind="jacobians"): the call
Shoot(k) ==
  /\ pc[k] = "shoot"
  /\ LET t == shoot(tracer[k], InitialPositions, SourceRedshifts)
     IN IF t.error # ""
          THEN /\ Fail(k, t.error)
               /\ tracer' = tracer
          ELSE /\ tracer' = [tracer EXCEPT ![k] = t]
               /\ Goto(k, "tracing")
  /\ UNCHANGED << inputs, random, first_realization, last_realization, r, s,
                  galaxies_in_catalog, catalog_subdirectory, written, made, arrived >>

\* the integrator inside shoot, one plane at a time
\* a propagation is under way and has a plane to cross
IntegrateEnabled(k) ==
  /\ pc[k] = "tracing"
  /\ tracer[k].state = "shooting"
  /\ tracer[k].s < Len(tracer[k].lenses)

Integrate(k) ==
  /\ IntegrateEnabled(k)
  /\ LET t == PlaneStep(tracer[k])
     IN /\ tracer' = [tracer EXCEPT ![k] = t]
        /\ Goto(k, IF t.state = "done" THEN "save" ELSE "tracing")
  /\ UNCHANGED << inputs, random, first_realization, last_realization, r, s,
                  galaxies_in_catalog, catalog_subdirectory, written, made, arrived >>

\* ------------------------------------------------------------- the outputs
\* a convergence taken from jacobian[0] and jacobian[2]
ConvergenceOffDiagonal(j) == 2 * One - (j[1] + j[3])

\* convergence, shear and omega of one jacobian, in half units:
\* 1.0-0.5*(jacobian[0]+jacobian[3]), 0.5*(jacobian[3]-jacobian[0]),
\* -0.5*(jacobian[1]+jacobian[2]), -0.5*(jacobian[2]-jacobian[1])
Convergence(j) == 2 * One - (j[1] + j[4])

\* the first shear with the sign of jacobian[0] lost
Shear1Sum(j) == j[4] + j[1]

Shear1(j) == j[4] - j[1]

Shear2(j) == -(j[2] + j[3])

Omega(j) == -(j[3] - j[2])

\* the jacobian shoot returned, one per ray
Jacobian(t) == [i \in 1..Len(t.rays) |-> t.rays[i].jacobian]

\* the decimal digits of n
RECURSIVE Digits(_)
Digits(n) == IF n < 10 THEN <<n>> ELSE Append(Digits(n \div 10), n % 10)

\* "{0:04d}".format(n): the digits of n with zeros ahead up to a width of 4
Format04d(n) == IF n < 10 THEN <<0, 0, 0>> \o Digits(n)
                ELSE IF n < 100 THEN <<0, 0>> \o Digits(n)
                ELSE IF n < 1000 THEN <<0>> \o Digits(n)
                ELSE Digits(n)

\* input file n of settings.input_files, as directory, name, number, extension
InputFile(n) == <<"positions", "galaxies", n, "fits">>

\* os.path.basename(galaxy_position_file.split(".")[0])
Stem(name) == <<name[2], name[3]>>

\* a file name that leaves the realization out
SavenameUntagged(kind, n, tag, subdir) ==
  <<subdir, kind, IF n = 0 THEN <<"z", settings.source_redshift>> ELSE Stem(InputFile(n)), <<>>>>

\* os.path.join(save_path, subdirectory, "WL<kind>_<z or input file>_<tag>r"):
\* the subdirectory, the kind, the redshift or the stem of the input file, and
\* the realization tag
Savename(kind, n, tag, subdir) ==
  <<subdir, kind, IF n = 0 THEN <<"z", settings.source_redshift>> ELSE Stem(InputFile(n)),
    Format04d(tag)>>

File(kind, n, tag, subdir, k, data) ==
  [kind |-> kind, file |-> n, tag |-> tag, subdir |-> subdir, by |-> k, data |-> data,
   path |-> Savename(kind, n, tag, subdir)]

\* the maps singleRedshift saves for realization rr: WL<kind>_z.._<rr+1>r
MapFiles(k, rr, jac) ==
  (IF "convergence" \in settings.outputs
     THEN {File("conv", 0, rr + 1, <<>>, k, [i \in 1..Len(jac) |-> Convergence(jac[i])])}
     ELSE {})
  \cup
  (IF "shear" \in settings.outputs
     THEN {File("shear", 0, rr + 1, <<>>, k,
                [i \in 1..Len(jac) |-> <<Shear1(jac[i]), Shear2(jac[i])>>])}
     ELSE {})
  \cup
  (IF "omega" \in settings.outputs
     THEN {File("omega", 0, rr + 1, <<>>, k, [i \in 1..Len(jac) |-> Omega(jac[i])])}
     ELSE {})

\* the rows of the shear catalog, columns shear1 and shear2
ShearCatalog(jac) == [i \in 1..Len(jac) |-> <<Shear1(jac[i]), Shear2(jac[i])>>]

\* reduce(add,galaxies_in_catalog[:n]), 0 for n = 0 (n counts from 0)
\* a count of the galaxies before file n that takes file n in
GalaxiesThrough(counts, n) == SumSeq(SubSeq(counts, 1, Min(n + 1, Len(counts))))

GalaxiesBefore(counts, n) == SumSeq(SubSeq(counts, 1, n))

\* shear_catalog[before:before+count]
Rows(cat, before, count) ==
  SubSeq(cat, Min(before, Len(cat)) + 1, Min(before + count, Len(cat)))

\* the subdirectory realization rr is saved in, <<>> when there is none
SubdirectoryOf(names, rr) == names[(rr \div RealizationsInSubdir) + 1]

SubdirectoryMissing(names, rr) ==
  names # <<>> /\ (rr \div RealizationsInSubdir) + 1 > Len(names)

\* the catalogs simulatedCatalog saves for realization rr, one per input file
CatalogFiles(k, rr, jac) ==
  LET cat == ShearCatalog(jac)
      counts == galaxies_in_catalog[k]
      names == catalog_subdirectory[k]
  IN { File("shearcat", n, rr + 1,
            IF names = <<>> THEN <<>> ELSE SubdirectoryOf(names, rr), k,
            Rows(cat, GalaxiesBefore(counts, n - 1), counts[n])) : n \in 1..Len(catalogs) }

\* compute the outputs of realization r and save them
Save(k) ==
  /\ pc[k] = "save"
  /\ LET jac == Jacobian(tracer[k])
     IN IF mode = "map"
          THEN /\ written' = written \cup MapFiles(k, r[k], jac)
               /\ r' = [r EXCEPT ![k] = @ + 1]
               /\ Goto(k, "loop")
        ELSE IF catalogs # <<>> /\ SubdirectoryMissing(catalog_subdirectory[k], r[k])
          THEN /\ Fail(k, "IndexError")
               /\ UNCHANGED << written, r >>
        ELSE IF \E f \in CatalogFiles(k, r[k], jac) : f.subdir # <<>> /\ f.subdir \notin made
          THEN /\ Fail(k, "IOError")
               /\ UNCHANGED << written, r >>
        ELSE /\ written' = written \cup CatalogFiles(k, r[k], jac)
             /\ r' = [r EXCEPT ![k] = @ + 1]
             /\ Goto(k, "loop")
  /\ UNCHANGED << inputs, random, first_realization, last_realization, s, tracer,
                  galaxies_in_catalog, catalog_subdirectory, made, arrived >>

\* the barrier after the last realization
BarrierEnterFinal(k) == BarrierEnter(k, "barrier", 2, "waiting", "report")

BarrierLeaveFinal(k) == BarrierLeave(k, "waiting", 2, "report")

\* the master logs the total runtime
Report(k) ==
  /\ pc[k] = "report"
  /\ Goto(k, "done")
  /\ UNCHANGED << inputs, random, first_realization, last_realization, r, s, tracer,
                  galaxies_in_catalog, catalog_subdirectory, written, made, arrived >>

\* ------------------------------------------------------------------- inputs
TargetRedshifts == Redshifts \cup {4}

AngleUnits == {"arcmin", "deg"}

\* the lines an info.txt is made of: well-formed lines in Mpc/h, one line in
\* another unit, and the empty line
InfoLines(n) ==
  {InfoLine(n, d, "Mpc/h", z, f) : d \in Distances, z \in Redshifts, f \in Fields}
    \cup {InfoLine(n, 1, un, 1, 1) : un \in Units \ {"Mpc/h"}}
    \cup {BlankLine}

\* the lines a longer manifest goes on with: a further plane at any distance,
\* or an empty line
LateLines ==
  {InfoLine(0, d, "Mpc/h", 3, 1) : d \in Distances} \cup {BlankLine}

\* any two first lines, then lines of LateLines
Manifests ==
  UNION { {q \in [1..m -> InfoLines(0)] : \A n \in 3..m : q[n] \in LateLines}
          : m \in 0..MaxSnapshots }

\* line n of a manifest names snapshot n
Numbered(q) == [n \in 1..Len(q) |-> IF q[n].blank THEN q[n] ELSE [q[n] EXCEPT !.snapshot = n]]

PositionFiles(zs) == [n : GalaxyCounts, aunit : AngleUnits, z : zs]

AllOutputs == {"convergence", "shear", "omega"}

Settings(realizations, z, outputs, total) ==
  [lens_realizations |-> realizations, source_redshift |-> z, outputs |-> outputs,
   total_num_galaxies |-> total, catalog_angle_unit |-> "arcmin",
   map_angle |-> 3, map_resolution |-> 2,
   has_realizations_per_subdirectory |-> FALSE, realizations_per_subdirectory |-> 0,
   cut_redshifts |-> <<0>>,
   seed |-> 0, mix_nbody_realizations |-> <<1, 2>>, mix_cut_points |-> <<0, 1, 2>>,
   mix_normals |-> <<0, 1, 2>>]

DefaultInfo == << InfoLine(1, 1, "Mpc/h", 1, 1), InfoLine(2, 2, "Mpc/h", 3, 1) >>

DefaultCatalogs(z) == << [n |-> 1, aunit |-> "arcmin", z |-> 1], [n |-> 1, aunit |-> "arcmin", z |-> z] >>

\* no snapshot is opened
NoSnapshot == [size |-> 0, set |-> FALSE, first |-> None, last |-> None, positions |-> <<>>]

\* no plane is sampled on its own
NoSampler == [grid |-> <<>>, q |-> <<0, 0>>, sample |-> <<>>]

InitTasks ==
  /\ pc = [k \in Ranks |-> "start"]
  /\ err = [k \in Ranks |-> ""]
  /\ first_realization = [k \in Ranks |-> 0]
  /\ last_realization = [k \in Ranks |-> 0]
  /\ r = [k \in Ranks |-> 0]
  /\ s = [k \in Ranks |-> 0]
  /\ tracer = [k \in Ranks |-> NoTracer]
  /\ galaxies_in_catalog = [k \in Ranks |-> <<>>]
  /\ catalog_subdirectory = [k \in Ranks |-> <<>>]
  /\ written = {}
  /\ made = {}
  /\ arrived = [b \in 1..2 |-> {}]
  /\ sampler = NoSampler
  /\ rng = [k \in Ranks |-> NoGenerator]
  /\ randomizer = [k \in Ranks |-> <<>>]
  /\ c_index = [k \in Ranks |-> Unbound]
  /\ snap = [k \in Ranks |-> NoSnapshot]

\* a pool of up to MaxTasks tasks (or none) and any number of realizations
InitPool ==
  /\ mode \in {"map", "catalog"}
  /\ pool \in BOOLEAN
  /\ pool_size \in IF pool THEN 0..(MaxTasks - 1) ELSE {0}
  /\ \E n \in 0..MaxRealizations : settings = Settings(n, 2, AllOutputs, 2)
  /\ info = DefaultInfo
  /\ catalogs = DefaultCatalogs(2)

\* one task, one realization, any info.txt and any source redshift
InitInfo ==
  /\ mode \in {"map", "catalog"}
  /\ pool = FALSE
  /\ pool_size = 0
  /\ \E z \in TargetRedshifts :
       /\ settings = Settings(1, z, AllOutputs, 2)
       /\ catalogs = DefaultCatalogs(z)
  /\ info \in {Numbered(q) : q \in Manifests}

\* one task, one realization, any position files and any total
InitCatalogs ==
  /\ mode = "catalog"
  /\ pool = FALSE
  /\ pool_size = 0
  /\ \E n \in 0..(MaxFiles * 2) : settings = Settings(1, 2, AllOutputs, n)
  /\ info = DefaultInfo
  /\ catalogs \in UNION { [1..m -> PositionFiles({2})] : m \in 0..MaxFiles }

\* one task, one realization, any choice of the maps to save
InitOutputs ==
  /\ mode = "map"
  /\ pool = FALSE
  /\ pool_size = 0
  /\ \E o \in SUBSET AllOutputs, z \in TargetRedshifts : settings = Settings(1, z, o, 2)
  /\ info = DefaultInfo
  /\ catalogs = DefaultCatalogs(2)

\* the candidate lists of the randomization: as many N-body realizations, cut
\* points and normals as the triple says
Mixes ==
  {<<2, 3, 3>>, <<1, 1, 1>>, <<2, 1, 3>>, <<0, 1, 1>>, <<1, 0, 1>>, <<1, 1, 0>>}

\* two realizations and any seed: one task and any candidate lists, or two
\* tasks and the longest lists
InitSeeds ==
  /\ mode \in {"map", "catalog"}
  /\ pool \in BOOLEAN
  /\ pool_size = IF pool THEN 1 ELSE 0
  /\ \E n \in 0..MaxSeed, mix \in IF pool THEN {<<2, 3, 3>>} ELSE Mixes :
       settings = [Settings(2, 2, AllOutputs, 2) EXCEPT
                     !.seed = n,
                     !.mix_nbody_realizations = [i \in 1..mix[1] |-> i],
                     !.mix_cut_points = [i \in 1..mix[2] |-> i - 1],
                     !.mix_normals = [i \in 1..mix[3] |-> i - 1]]
  /\ info = DefaultInfo
  /\ catalogs = DefaultCatalogs(2)

\* one task or two, any number of realizations and any size of subdirectory
InitSubdirectories ==
  /\ mode = "catalog"
  /\ pool \in BOOLEAN
  /\ pool_size = IF pool THEN 1 ELSE 0
  /\ \E n \in 0..MaxRealizations, per \in 0..MaxRealizations :
       settings = [Settings(n, 2, AllOutputs, 2) EXCEPT
                     !.has_realizations_per_subdirectory = TRUE,
                     !.realizations_per_subdirectory = per]
  /\ info = DefaultInfo
  /\ catalogs = DefaultCatalogs(2)

\* the cut redshifts of the collections, ascending
CutRedshifts == {<<0>>, <<0, 2>>, <<2>>, <<2, 3>>}

\* maps of one collection or of a telescopic map set, from an info.txt of two
\* planes at any redshifts, in any order
InitCollections ==
  /\ mode = "map"
  /\ pool = FALSE
  /\ pool_size = 0
  /\ \E cuts \in CutRedshifts :
       settings = [Settings(2, 2, AllOutputs, 2) EXCEPT !.cut_redshifts = cuts]
  /\ \E z1 \in Redshifts, z2 \in Redshifts :
       info = << InfoLine(1, z1, "Mpc/h", z1, 1), InfoLine(2, z2, "Mpc/h", z2, 1) >>
  /\ catalogs = DefaultCatalogs(2)

Init ==
  /\ InitPool \/ InitInfo \/ InitCatalogs \/ InitOutputs \/ InitSeeds \/ InitSubdirectories
       \/ InitCollections
  /\ InitTasks

Next ==
  \/ \E k \in Ranks : Configure(k)
  \/ \E k \in Ranks : ReadCatalogs(k)
  \/ \E k \in Ranks : Subdirectories(k)
  \/ \E k \in Ranks : SyncEnter(k)
  \/ \E k \in Ranks : SyncLeave(k)
  \/ \E k \in Ranks : Partition(k)
  \/ \E k \in Ranks : Randomize(k)
  \/ \E k \in Ranks : NextRealization(k)
  \/ \E k \in Ranks : ReadLine(k)
  \/ \E k \in Ranks : Reorder(k)
  \/ \E k \in Ranks : Shoot(k)
  \/ \E k \in Ranks : Integrate(k)
  \/ \E k \in Ranks : Save(k)
  \/ \E k \in Ranks : BarrierEnterFinal(k)
  \/ \E k \in Ranks : BarrierLeaveFinal(k)
  \/ \E k \in Ranks : Report(k)

Spec == Init /\ [][Next]_vars

\* ------------------------------------- any caller of the RayTracer alone
\* A caller other than the two scripts: it makes a RayTracer and calls
\* addLens, reorderLenses and shoot in any order, up to MaxCalls calls, and
\* goes on after a call that was refused.
ClientLenses(t) == {Lens(Len(t.lenses) + 1, d, d, 1) : d \in Distances}

Calling == mode = "client" /\ pc[0] = "client"

CanCall == tracer[0].made /\ tracer[0].state # "shooting" /\ Len(tracer[0].calls) < MaxCalls

\* the call returned or raised: the tracer is as the call left it
Called(t) ==
  /\ tracer' = [tracer EXCEPT ![0] = [t EXCEPT !.error = ""]]
  /\ err' = [err EXCEPT ![0] = t.error]
  /\ UNCHANGED << inputs, random, pc, first_realization, last_realization, r, s,
                  galaxies_in_catalog, catalog_subdirectory, written, made, arrived >>

ClientNew ==
  /\ Calling
  /\ ~tracer[0].made
  /\ Called(RayTracer)

ClientAddLens ==
  /\ Calling /\ CanCall
  /\ \E lens \in ClientLenses(tracer[0]) : Called(addLens(tracer[0], lens))

ClientReorder ==
  /\ Calling /\ CanCall
  /\ LET rolled == rollLenses(reorderLenses(tracer[0]), rng[0])
     IN /\ tracer' = [tracer EXCEPT ![0] = rolled.tracer]
        /\ rng' = [rng EXCEPT ![0] = rolled.rng]
  /\ err' = [err EXCEPT ![0] = ""]
  /\ UNCHANGED << inputs, randomizer, c_index, pc, first_realization, last_realization, r, s,
                  galaxies_in_catalog, catalog_subdirectory, written, made, arrived >>

ClientShoot ==
  /\ Calling /\ CanCall
  /\ Called(shoot(tracer[0], << <<1, 2>> >>, << settings.source_redshift >>))

ClientIntegrate ==
  /\ Calling
  /\ tracer[0].made /\ tracer[0].state = "shooting"
  /\ Called(PlaneStep(tracer[0]))

InitClient ==
  /\ mode = "client"
  /\ pool = FALSE
  /\ pool_size = 0
  /\ \E z \in TargetRedshifts : settings = Settings(0, z, AllOutputs, 0)
  /\ info = <<>>
  /\ catalogs = <<>>
  /\ pc = [k \in Ranks |-> "client"]
  /\ err = [k \in Ranks |-> ""]
  /\ first_realization = [k \in Ranks |-> 0]
  /\ last_realization = [k \in Ranks |-> 0]
  /\ r = [k \in Ranks |-> 0]
  /\ s = [k \in Ranks |-> 0]
  /\ tracer = [k \in Ranks |-> NoTracer]
  /\ galaxies_in_catalog = [k \in Ranks |-> <<>>]
  /\ catalog_subdirectory = [k \in Ranks |-> <<>>]
  /\ written = {}
  /\ made = {}
  /\ arrived = [b \in 1..2 |-> {}]
  /\ sampler = NoSampler
  /\ rng = [k \in Ranks |-> seed(NoGenerator, settings.seed)]
  /\ randomizer = [k \in Ranks |-> <<>>]
  /\ c_index = [k \in Ranks |-> Unbound]
  /\ snap = [k \in Ranks |-> NoSnapshot]

NextClient ==
  \/ ClientNew
  \/ ClientAddLens
  \/ ClientReorder
  \/ ClientShoot
  \/ ClientIntegrate

\* the scripts, or any other caller of the RayTracer
InitApi == Init \/ InitClient

NextApi == Next \/ NextClient

SpecApi == InitApi /\ [][NextApi]_vars

\* --------------------------------------------- the sampler on its own
\* one component of a grid: any values 0 or 1 on the pixels
GridComponents == [0..(GridSide - 1) -> [0..(GridSide - 1) -> {0, 1}]]

Transposed(g) == [i \in 0..(GridSide - 1) |-> [j \in 0..(GridSide - 1) |-> g[j][i]]]

\* the grids sampled: any first component, the second its transpose
Grids == {<<g, Transposed(g)>> : g \in GridComponents}

\* query positions: on the plane and up to a pixel off each of its edges
Queries == {<<x, y>> : x \in (-Sub)..(PlaneSize + Sub - 1), y \in (-Sub)..(PlaneSize + Sub - 1)}

\* the sampler is asked for the field at q
SampleAt(q) ==
  /\ mode = "sampler"
  /\ sampler' = [sampler EXCEPT !.q = q, !.sample = Sample(sampler.grid, q)]
  /\ UNCHANGED << mode, pool, pool_size, settings, info, catalogs, pc, err,
                  first_realization, last_realization, r, s, tracer,
                  galaxies_in_catalog, catalog_subdirectory, written, made, arrived,
                  rng, randomizer, c_index, snap >>

InitSampler ==
  /\ mode = "sampler"
  /\ pool = FALSE
  /\ pool_size = 0
  /\ settings = Settings(0, 1, AllOutputs, 0)
  /\ info = <<>>
  /\ catalogs = <<>>
  /\ pc = [k \in Ranks |-> "sampler"]
  /\ err = [k \in Ranks |-> ""]
  /\ first_realization = [k \in Ranks |-> 0]
  /\ last_realization = [k \in Ranks |-> 0]
  /\ r = [k \in Ranks |-> 0]
  /\ s = [k \in Ranks |-> 0]
  /\ tracer = [k \in Ranks |-> NoTracer]
  /\ galaxies_in_catalog = [k \in Ranks |-> <<>>]
  /\ catalog_subdirectory = [k \in Ranks |-> <<>>]
  /\ written = {}
  /\ made = {}
  /\ arrived = [b \in 1..2 |-> {}]
  /\ rng = [k \in Ranks |-> NoGenerator]
  /\ randomizer = [k \in Ranks |-> <<>>]
  /\ c_index = [k \in Ranks |-> Unbound]
  /\ snap = [k \in Ranks |-> NoSnapshot]
  /\ \E grid \in Grids :
       sampler = [grid |-> grid, q |-> <<0, 0>>, sample |-> Sample(grid, <<0, 0>>)]

\* from one query to the next: a unit or a whole plane size along x or y
Steps ==
  {<<d, 0>> : d \in {-PlaneSize, -1, 1, PlaneSize}}
    \cup {<<0, d>> : d \in {-PlaneSize, -1, 1, PlaneSize}}

NextSampler ==
  \E d \in Steps :
    /\ VecAdd(sampler.q, d) \in Queries
    /\ SampleAt(VecAdd(sampler.q, d))

SpecSampler == InitSampler /\ [][NextSampler]_vars

\* ----------------------------------------- the snapshots of a pool of tasks
\* each task opens the same file of Np particles
InitLimits ==
  /\ mode = "snapshot"
  /\ pool \in BOOLEAN
  /\ pool_size \in IF pool THEN 0..(MaxTasks - 1) ELSE {0}
  /\ settings = Settings(0, 1, AllOutputs, 0)
  /\ info = <<>>
  /\ catalogs = <<>>
  /\ pc = [k \in Ranks |-> "snapshot"]
  /\ err = [k \in Ranks |-> ""]
  /\ first_realization = [k \in Ranks |-> 0]
  /\ last_realization = [k \in Ranks |-> 0]
  /\ r = [k \in Ranks |-> 0]
  /\ s = [k \in Ranks |-> 0]
  /\ tracer = [k \in Ranks |-> NoTracer]
  /\ galaxies_in_catalog = [k \in Ranks |-> <<>>]
  /\ catalog_subdirectory = [k \in Ranks |-> <<>>]
  /\ written = {}
  /\ made = {}
  /\ arrived = [b \in 1..2 |-> {}]
  /\ sampler = NoSampler
  /\ rng = [k \in Ranks |-> NoGenerator]
  /\ randomizer = [k \in Ranks |-> <<>>]
  /\ c_index = [k \in Ranks |-> Unbound]
  /\ \E Np \in 0..MaxParticles :
       snap = [k \in Ranks |-> [NoSnapshot EXCEPT !.size = Np]]

\* self.setLimits() of the snapshot of task k
setLimits(k) ==
  /\ mode = "snapshot"
  /\ pc[k] = "snapshot"
  /\ LET limits == IF ~pool
                     THEN [first |-> None, last |-> None]
                     ELSE Limits(pool_size + 1, snap[k].size, k)
     IN snap' = [snap EXCEPT ![k].set = TRUE, ![k].first = limits.first,
                                     ![k].last = limits.last]
  /\ pc' = [pc EXCEPT ![k] = "limits"]
  /\ UNCHANGED << mode, pool, pool_size, settings, info, catalogs, sampler, random, err,
                  first_realization, last_realization, r, s, tracer, galaxies_in_catalog,
                  catalog_subdirectory, written, made, arrived >>

\* getPositions(first, last) of the limits of the snapshot of task k
getPositions(k) ==
  /\ mode = "snapshot"
  /\ pc[k] = "limits"
  /\ snap' = [snap EXCEPT ![k].positions =
                Positions(Particles(snap[k].size), snap[k].first, snap[k].last)]
  /\ pc' = [pc EXCEPT ![k] = "positions"]
  /\ UNCHANGED << mode, pool, pool_size, settings, info, catalogs, sampler, random, err,
                  first_realization, last_realization, r, s, tracer, galaxies_in_catalog,
                  catalog_subdirectory, written, made, arrived >>

NextLimits ==
  \/ \E k \in Ranks : setLimits(k)
  \/ \E k \in Ranks : getPositions(k)

SpecLimits == InitLimits /\ [][NextLimits]_vars

\* ------------------------------------------------------------------ claims
Tasks == pool_size + 1

\* the task has been given its realizations
Assigned(k) ==
  pc[k] \in {"randomize", "loop", "lenses", "reorder", "shoot", "tracing", "save",
             "barrier", "waiting", "report", "done"}

AssignedRange(k) == Range(first_realization[k], last_realization[k])

\* a map or a shear catalog, not the copy of a position file
IsOutput(f) == f.kind \in {"conv", "shear", "omega", "shearcat"}

\* C1: with a pool of W tasks and R realizations, R % W = 0, task k is given
\* the half-open range [k*R/W, (k+1)*R/W); the ranges are pairwise disjoint,
\* each of R/W elements, and together they are 0..R-1; without a pool the one
\* task is given [0,R).  A task saves only realizations of its range.
PartitionComplete ==
  /\ \A k \in Ranks : Assigned(k) =>
       /\ ~pool => AssignedRange(k) = 0..(Realizations - 1)
       /\ (pool /\ Realizations % Tasks = 0) =>
            /\ AssignedRange(k) = Range((k * Realizations) \div Tasks,
                                        ((k + 1) * Realizations) \div Tasks)
            /\ Cardinality(AssignedRange(k)) * Tasks = Realizations
       /\ r[k] \in first_realization[k]..last_realization[k]
  /\ \A k, j \in Ranks :
       (Assigned(k) /\ Assigned(j) /\ k # j) => AssignedRange(k) \cap AssignedRange(j) = {}
  /\ (\A k \in Ranks : Assigned(k)) =>
       UNION {AssignedRange(k) : k \in Ranks} = 0..(Realizations - 1)
  /\ \A f \in written : IsOutput(f) => (f.tag - 1) \in AssignedRange(f.by)

\* three tasks, three realizations, every task through with its own
PartitionCompleteWitness ==
  /\ pool /\ pool_size = 2 /\ Realizations = 3
  /\ \A k \in Ranks : pc[k] = "done"
  /\ \A k \in Ranks : \E f \in written : f.by = k /\ f.tag = k + 1

\* a pool, and a number of realizations that is no multiple of its tasks
Unbalanced == pool /\ Realizations % Tasks # 0

\* what a task may fail with ahead of the partition, in simulatedCatalog:
\* reading the position files and naming the subdirectories
InputErrors ==
  {"TypeError", "ValueError", "AssertionError: total number of galaxies",
   "AssertionError: catalog angle units", "ZeroDivisionError",
   "AssertionError: realizations in each subdirectory"}

UnbalancedState ==
  Unbalanced =>
    /\ \A k \in Ranks :
         /\ pc[k] \in {"start", "catalogs", "subdirectories", "sync", "syncing",
                       "partition", "failed"}
         /\ ~tracer[k].made
         /\ pc[k] = "failed" =>
              err[k] \in {"AssertionError: perfect load-balancing"} \cup InputErrors
    /\ \A f \in written : ~IsOutput(f)

UnbalancedStep ==
  \A k \in 0..(MaxTasks - 1) :
    (k \in Ranks /\ Unbalanced) =>
      /\ pc[k] = "failed" => pc'[k] = "failed"
      /\ (pc[k] = "partition" /\ pc'[k] # "partition") =>
           (pc'[k] = "failed" /\ err'[k] = "AssertionError: perfect load-balancing")

\* C2: with a pool and a number of realizations that is no multiple of the
\* number of tasks, every task stops at the load-balancing assertion (if it
\* has not failed before it, reading its inputs): no task makes a ray tracer,
\* starts a realization or saves a map or a catalog, and a task that failed
\* stays failed.
UnbalancedFails == [][UnbalancedState /\ UnbalancedState' /\ UnbalancedStep]_vars

\* two tasks, three realizations, both tasks failed
UnbalancedFailsWitness ==
  /\ pool /\ pool_size = 1 /\ Realizations = 3
  /\ \A k \in Ranks : pc[k] = "failed" /\ err[k] = "AssertionError: perfect load-balancing"

\* the galaxies the position files hold, all files together
GalaxiesInFiles == SumSeq([n \in 1..Len(catalogs) |-> catalogs[n].n])

UnitsMatch == \A n \in 1..Len(catalogs) : catalogs[n].aunit = settings.catalog_angle_unit

\* the task has read the position files and checked the total
CatalogsRead(k) == mode = "catalog" /\ pc[k] \notin {"start", "catalogs"}

\* the reading of the position files ended the task
CatalogsRefused(k) ==
  /\ pc[k] = "failed"
  /\ err[k] \in {"TypeError", "ValueError", "AssertionError: total number of galaxies",
                 "AssertionError: catalog angle units"}

\* C3 as claimed: for any list of position files (of the unit of the
\* settings), the check passes if and only if the counts add up to
\* total_num_galaxies.
CatalogAccountingAnyList ==
  \A k \in Ranks :
    (CatalogsRead(k) /\ UnitsMatch) =>
      (~CatalogsRefused(k) <=> GalaxiesInFiles = settings.total_num_galaxies)

\* C3: for any list of at least one position file (of the unit of the
\* settings), the check passes if and only if the counts add up to
\* total_num_galaxies; when they do not, the task fails before it makes a ray
\* tracer, so before any lens is added and before any propagation.  With no
\* position file the task fails whatever the total.
CatalogAccounting ==
  \A k \in Ranks :
    CatalogsRead(k) =>
      /\ UnitsMatch =>
           (~CatalogsRefused(k) <=>
              (catalogs # <<>> /\ GalaxiesInFiles = settings.total_num_galaxies))
      /\ GalaxiesInFiles # settings.total_num_galaxies =>
           /\ CatalogsRefused(k)
           /\ ~tracer[k].made
           /\ \A f \in written : ~IsOutput(f)
      /\ catalogs = <<>> => CatalogsRefused(k)

\* two files of 1 and 2 galaxies, a total of 4: the check of the total fails
CatalogAccountingWitness ==
  /\ Len(catalogs) = 2 /\ GalaxiesInFiles = 3 /\ settings.total_num_galaxies = 4
  /\ catalogs[1].n = 1
  /\ pc[0] = "failed" /\ err[0] = "AssertionError: total number of galaxies"

\* the realization the task has just saved is r[k], counted from 1
Saved(k) ==
  /\ pc[k] \in {"loop", "barrier", "waiting", "report", "done"}
  /\ tracer[k].made /\ tracer[k].state = "done"

FilesOf(k, kind, tag) == {f \in written : f.kind = kind /\ f.by = k /\ f.tag = tag}

\* C4: for the jacobian (J0,J1,J2,J3) the integrator returned, the saved
\* convergence is 1-(J0+J3)/2, the shear ((J3-J0)/2, -(J1+J2)/2) and omega
\* -(J2-J1)/2, in the maps and in the columns of the shear catalogs (values
\* in half units: twice the value is what is compared).
DerivedOutputs ==
  \A k \in Ranks : Saved(k) =>
    LET jac == Jacobian(tracer[k])
    IN IF mode = "map"
         THEN /\ "convergence" \in settings.outputs <=> FilesOf(k, "conv", r[k]) # {}
              /\ "shear" \in settings.outputs <=> FilesOf(k, "shear", r[k]) # {}
              /\ "omega" \in settings.outputs <=> FilesOf(k, "omega", r[k]) # {}
              /\ \A f \in FilesOf(k, "conv", r[k]) :
                   /\ Len(f.data) = Len(jac)
                   /\ \A i \in 1..Len(jac) : f.data[i] + (jac[i][1] + jac[i][4]) = 2 * One
              /\ \A f \in FilesOf(k, "shear", r[k]) :
                   /\ Len(f.data) = Len(jac)
                   /\ \A i \in 1..Len(jac) :
                        /\ f.data[i][1] + jac[i][1] = jac[i][4]
                        /\ f.data[i][2] + jac[i][2] + jac[i][3] = 0
              /\ \A f \in FilesOf(k, "omega", r[k]) :
                   /\ Len(f.data) = Len(jac)
                   /\ \A i \in 1..Len(jac) : f.data[i] + jac[i][3] = jac[i][2]
         ELSE /\ \A n \in 1..Len(catalogs) : \E f \in FilesOf(k, "shearcat", r[k]) : f.file = n
              /\ \A f \in FilesOf(k, "shearcat", r[k]) :
                   LET before == SumSeq([m \in 1..(f.file - 1) |-> catalogs[m].n])
                   IN /\ Len(f.data) = catalogs[f.file].n
                      /\ \A i \in 1..Len(f.data) :
                           /\ f.data[i][1] + jac[before + i][1] = jac[before + i][4]
                           /\ f.data[i][2] + jac[before + i][2] + jac[before + i][3] = 0

\* a map run through two deflecting planes: the jacobian is not symmetric
DerivedOutputsWitness ==
  /\ mode = "map" /\ pc[0] = "done" /\ settings.outputs = AllOutputs
  /\ tracer[0].made /\ Len(tracer[0].visited) = 2
  /\ Jacobian(tracer[0])[1][2] # Jacobian(tracer[0])[1][3]
  /\ \E f \in written : f.kind = "omega" /\ f.data[1] # 0

AllFieldsZero(t) == \A i \in 1..Len(t.lenses) : t.lenses[i].field = 0

\* C5: when the deflection field of every plane is identically zero, every
\* ray ends where it started and with the identity for jacobian, whatever the
\* number of planes, their distances and the source redshift; the
\* convergence and shear saved are then zero everywhere.
ZeroDeflectionIdentity ==
  \A k \in Ranks :
    (tracer[k].made /\ tracer[k].state = "done" /\ AllFieldsZero(tracer[k])) =>
      /\ \A i \in 1..Len(tracer[k].rays) :
           /\ tracer[k].rays[i].position = VecScale(One, tracer[k].rays[i].theta)
           /\ tracer[k].rays[i].jacobian = MatScale(One, Identity)
      /\ Saved(k) =>
           /\ \A f \in FilesOf(k, "conv", r[k]) \cup FilesOf(k, "omega", r[k]) :
                \A i \in 1..Len(f.data) : f.data[i] = 0
           /\ \A f \in FilesOf(k, "shear", r[k]) \cup FilesOf(k, "shearcat", r[k]) :
                \A i \in 1..Len(f.data) : f.data[i] = <<0, 0>>

\* two planes without deflection, a source behind both, the maps saved
ZeroDeflectionIdentityWitness ==
  /\ mode = "map" /\ Saved(0) /\ AllFieldsZero(tracer[0])
  /\ Len(tracer[0].lenses) = 2 /\ Len(tracer[0].visited) = 2
  /\ tracer[0].rays[2].theta # <<0, 0>>
  /\ \E f \in written : f.kind = "conv"

SetMax(S) == CHOOSE x \in S : \A y \in S : y <= x

SetMin(S) == CHOOSE x \in S : \A y \in S : x <= y

\* the redshift the script asks shoot to reach: source_redshift for a map, the
\* redshifts of the galaxies (the farthest decides) for a catalog
RequestedRedshift ==
  IF mode = "map" THEN settings.source_redshift
  ELSE LET g == GalaxiesOf(catalogs, 1)
       IN IF g = <<>> THEN 0 ELSE SetMax({g[i].z : i \in 1..Len(g)})

\* the plane (counted from 0) at which the integrator has to stop
LastPlane(t) ==
  LET reached == {i \in 0..(Len(t.lenses) - 1) : t.lenses[i + 1].redshift >= RequestedRedshift}
  IN IF reached = {} THEN Len(t.lenses) - 1 ELSE SetMin(reached)

\* C6: over any reordered sequence of N >= 1 planes and for any target
\* redshift the integrator visits the planes 0,1,2,... in order, each once,
\* and stops: at the first plane whose redshift is at least the target, or
\* after plane N-1 when every plane is nearer.  While it has not stopped its
\* next step is enabled, and it has at most N steps to take.
IntegratorTerminates ==
  \A k \in Ranks :
    (tracer[k].made /\ tracer[k].state \in {"shooting", "done"}) =>
      LET t == tracer[k]
      IN /\ Len(t.lenses) >= 1
         /\ t.visited = [i \in 1..Len(t.visited) |-> i - 1]
         /\ Len(t.visited) <= LastPlane(t) + 1
         /\ t.state = "done" => Len(t.visited) = LastPlane(t) + 1
         /\ t.state = "shooting" =>
              /\ t.s = Len(t.visited)
              /\ t.s <= LastPlane(t)
              /\ IntegrateEnabled(k)

\* the integrator stopped at the first of two planes, the second left alone
IntegratorTerminatesWitness ==
  /\ mode = "map" /\ tracer[0].made /\ tracer[0].state = "done"
  /\ Len(tracer[0].lenses) = 2 /\ tracer[0].visited = <<0>>
  /\ tracer[0].lenses[1].redshift = settings.source_redshift

Count(q, x) == Cardinality({i \in 1..Len(q) : q[i] = x})

IsPermutation(p, q) ==
  /\ Len(p) = Len(q)
  /\ \A i \in 1..Len(q) : Count(p, q[i]) = Count(q, q[i])

\* the lenses the script has added to the tracer of the realization at hand
LensesAdded(k) ==
  [i \in 1..s[k] |-> Lens(info[i].snapshot, info[i].distance, info[i].redshift, info[i].field)]

\* the lenses without the plane files chosen for them
Unnamed(q) == [i \in 1..Len(q) |-> [q[i] EXCEPT !.file = <<>>, !.collection = 0]]

\* C7: once the script has called reorderLenses, whatever the order of the
\* lines of info.txt, the lenses of the tracer are in ascending order of
\* distance and are the lenses that were added, each as often as it was added.
ReorderSorts ==
  \A k \in Ranks :
    /\ pc[k] \in {"shoot", "tracing", "save"} => tracer[k].ordered
    /\ (tracer[k].made /\ tracer[k].ordered) =>
         /\ AscendingOrEqual(tracer[k].lenses)
         /\ IsPermutation(Unnamed(tracer[k].lenses), LensesAdded(k))

\* two lines, the farther plane first: reorderLenses has exchanged them
ReorderSortsWitness ==
  /\ Len(info) = 2 /\ ~info[1].blank /\ ~info[2].blank
  /\ info[1].distance > info[2].distance
  /\ pc[0] = "shoot" /\ tracer[0].ordered
  /\ tracer[0].lenses[1].snapshot = 2

\* the distance info.txt gives for the i-th plane the integrator consumed
ConsumedDistance(t, i) == info[t.lenses[t.visited[i] + 1].snapshot].distance

NoLens == num_snapshots = 0 \/ info[1].blank

\* C10: when info.txt gives no lens (it is empty or starts with an empty
\* line) the tracer stays empty, shoot ends the task with a configuration
\* error, the integrator never starts and nothing is saved for the
\* realization.
EmptySequenceRefused ==
  \A k \in Ranks :
    (NoLens /\ tracer[k].made) =>
      /\ tracer[k].lenses = <<>>
      /\ tracer[k].state = "idle"
      /\ pc[k] \in {"lenses", "reorder", "shoot", "failed"}
      /\ pc[k] = "failed" => err[k] = "ConfigurationError"
      /\ \A f \in written : ~(IsOutput(f) /\ f.by = k /\ f.tag = r[k] + 1)

\* an info.txt of two lines, the first one empty: the task has failed
EmptySequenceRefusedWitness ==
  /\ Len(info) = 2 /\ info[1].blank /\ ~info[2].blank
  /\ tracer[0].made /\ tracer[0].ordered
  /\ pc[0] = "failed" /\ err[0] = "ConfigurationError"

Before(c, i, what) == \E j \in 1..(i - 1) : c[j] = what

Adds(n) == [i \in 1..n |-> "addLens"]

\* C9: addLens is accepted only before reorderLenses and shoot only after
\* it: an addLens after reorderLenses and a shoot before it are refused with
\* a configuration error, and no propagation runs on a tracer that was not
\* reordered.  In every realization of either script the calls are, on a
\* fresh tracer, the addLens calls, then one reorderLenses, then one shoot.
RegistryProtocol ==
  \A k \in Ranks : tracer[k].made =>
    LET c == tracer[k].calls
    IN /\ \A i \in 1..Len(c) :
            /\ c[i] = "addLens" => ~Before(c, i, "reorderLenses")
            /\ c[i] = "addLens!" => Before(c, i, "reorderLenses")
            /\ c[i] = "shoot" => Before(c, i, "reorderLenses")
            /\ (c[i] = "shoot!" /\ tracer[k].lenses # <<>> /\ StrictlyAscending(tracer[k].lenses))
                 => ~Before(c, i, "reorderLenses")
       /\ tracer[k].state \in {"shooting", "done"} =>
            \E i \in 1..Len(c) : c[i] = "shoot" /\ Before(c, i, "reorderLenses")
       /\ Len(tracer[k].lenses) = Cardinality({i \in 1..Len(c) : c[i] = "addLens"})
       /\ (mode = "client" /\ c # <<>> /\ c[Len(c)] = "addLens!") => err[k] = "ConfigurationError"
       /\ (mode = "client" /\ c # <<>> /\ c[Len(c)] = "shoot!" /\ ~tracer[k].ordered)
            => err[k] = "ConfigurationError"
       /\ mode # "client" =>
            /\ pc[k] = "lenses" => c = Adds(s[k])
            /\ pc[k] \in {"reorder"} => c = Adds(s[k])
            /\ pc[k] = "shoot" => c = Adds(s[k]) \o <<"reorderLenses">>
            /\ (pc[k] \in {"tracing", "save"} \/ Saved(k))
                 => c = Adds(s[k]) \o <<"reorderLenses", "shoot">>
            /\ pc[k] = "failed" =>
                 \/ c = Adds(s[k])
                 \/ c = Adds(s[k]) \o <<"reorderLenses">>

\* a caller added a lens, reordered, and was refused a second addLens
RegistryProtocolWitness ==
  /\ mode = "client" /\ tracer[0].made
  /\ tracer[0].calls = <<"addLens", "reorderLenses", "addLens!">>
  /\ Len(tracer[0].lenses) = 1
  /\ err[0] = "ConfigurationError"

\* the redshift the script asks for ray i
Requested(i) ==
  IF mode = "map" THEN settings.source_redshift ELSE GalaxiesOf(catalogs, 1)[i].z

\* every plane of the tracer is nearer than the redshift asked for ray i
BeyondLastPlane(t, i) == \A j \in 1..Len(t.lenses) : t.lenses[j].redshift < Requested(i)

\* a plane without deflection at the redshift of the source
VirtualPlane(z) == Lens(0, ComovingDistance(z), z, 0)

\* a ray taken through the planes q[i], q[i+1], ... one after the other
RECURSIVE Through(_, _, _, _)
Through(ray, q, i, chi) ==
  IF i > Len(q) THEN ray
  ELSE Through(RayAtPlane(ray, q[i], chi, i = Len(q)), q, i + 1, q[i].distance)

\* C11: when the redshift asked for is beyond every plane, shoot does not
\* fail: the integrator consumes all N planes and the ray comes out as if it
\* had gone on, undeflected, from the last plane to a plane at the redshift
\* asked for; the task goes on to save the outputs of the realization.
ExtrapolatedBeyond ==
  \A k \in Ranks :
    (mode # "client" /\ tracer[k].made /\ tracer[k].state = "done") =>
      LET t == tracer[k]
      IN /\ (\E i \in 1..Len(t.rays) : BeyondLastPlane(t, i)) =>
              /\ t.visited = [j \in 1..Len(t.lenses) |-> j - 1]
              /\ pc[k] # "failed" /\ err[k] = ""
         /\ \A i \in 1..Len(t.rays) : BeyondLastPlane(t, i) =>
              LET virtual == Through(NewRay(InitialPositions[i], Requested(i)),
                                     t.lenses \o <<VirtualPlane(Requested(i))>>, 1, 0)
              IN /\ t.rays[i].done
                 /\ t.rays[i].position = virtual.position
                 /\ t.rays[i].jacobian = virtual.jacobian
         /\ (Saved(k) /\ \E i \in 1..Len(t.rays) : BeyondLastPlane(t, i)) =>
              IF mode = "map"
                THEN /\ "convergence" \in settings.outputs => FilesOf(k, "conv", r[k]) # {}
                     /\ "shear" \in settings.outputs => FilesOf(k, "shear", r[k]) # {}
                     /\ "omega" \in settings.outputs => FilesOf(k, "omega", r[k]) # {}
                ELSE \A n \in 1..Len(catalogs) :
                       \E f \in FilesOf(k, "shearcat", r[k]) : f.file = n

\* a map whose source is behind two deflecting planes: both consumed, the
\* convergence saved, and it is not zero
ExtrapolatedBeyondWitness ==
  /\ mode = "map" /\ Saved(0) /\ settings.source_redshift = 4
  /\ Len(tracer[0].lenses) = 2 /\ tracer[0].visited = <<0, 1>>
  /\ \A j \in 1..2 : tracer[0].lenses[j].field = 1
  /\ \E f \in FilesOf(0, "conv", r[0]) : f.data[1] # 0

\* C12: the grid of a plane is not loaded by addLens or reorderLenses; it is
\* loaded when the integrator first asks for the plane and never again,
\* however often the plane is asked for; and a realization starts with a
\* tracer that holds no loaded plane.
SinglePlaneLoad ==
  \A k \in Ranks : tracer[k].made =>
    LET t == tracer[k]
    IN /\ (\A i \in 1..Len(t.calls) : t.calls[i] # "shoot") =>
            (t.loaded = {} /\ t.loads = <<>> /\ t.requests = <<>>)
       /\ \A i, j \in 1..Len(t.loads) : i # j => t.loads[i] # t.loads[j]
       /\ t.loaded = {t.loads[i] : i \in 1..Len(t.loads)}
       /\ t.loaded = {t.requests[i] : i \in 1..Len(t.requests)}
       /\ \A i \in 1..Len(t.requests) :
            (\A j \in 1..(i - 1) : t.requests[j] # t.requests[i]) =>
              Cardinality({j \in 1..Len(t.loads) : t.loads[j] = t.requests[i]}) = 1
       /\ (mode # "client" /\ pc[k] \in {"lenses", "reorder", "shoot"}) =>
            (t.loaded = {} /\ t.loads = <<>>)
       /\ (mode # "client" /\ pc[k] \in {"tracing", "save"}) => t.loads = t.visited

\* a caller shot twice through the same plane: asked for twice, loaded once
SinglePlaneLoadWitness ==
  /\ mode = "client" /\ tracer[0].made /\ tracer[0].state = "done"
  /\ tracer[0].calls = <<"addLens", "reorderLenses", "shoot", "shoot">>
  /\ tracer[0].requests = <<0, 0>>
  /\ tracer[0].loads = <<0>>

\* the query position moved by whole plane sizes
Moved(q, nx, ny) == <<q[1] + nx * PlaneSize, q[2] + ny * PlaneSize>>

\* C13: the sample (deflection and its derivatives) at a position one plane
\* size farther, in either coordinate and either direction, is the sample at
\* the position; in particular the sample one plane size beyond the origin is
\* the sample at the origin; a position off the plane is wrapped, not refused.
PeriodicSampling ==
  mode = "sampler" =>
    /\ \A nx, ny \in {-1, 0, 1} :
         Sample(sampler.grid, Moved(sampler.q, nx, ny)) = sampler.sample
    /\ sampler.q \in {<<PlaneSize, 0>>, <<0, PlaneSize>>, <<PlaneSize, PlaneSize>>} =>
         sampler.sample = Sample(sampler.grid, <<0, 0>>)
    /\ sampler.sample.alpha = << Bilinear(sampler.grid[1], Wrap(sampler.q[1]), Wrap(sampler.q[2])),
                                 Bilinear(sampler.grid[2], Wrap(sampler.q[1]), Wrap(sampler.q[2])) >>

\* a grid that is not uniform sampled one plane size beyond the origin in x
PeriodicSamplingWitness ==
  /\ mode = "sampler"
  /\ sampler.q = <<PlaneSize, 0>>
  /\ sampler.grid[1][0][0] = 1 /\ sampler.grid[1][GridSide - 1][0] = 0
  /\ sampler.sample.alpha[1] = Sub * Sub

\* the value the task seeds its generator with
SeedOf(k) == IF pool THEN settings.seed + k ELSE settings.seed

\* the states q a generator has gone through, and those of n draws more
RECURSIVE Advanced(_, _)
Advanced(q, n) ==
  IF n = 0 \/ q = <<>> THEN q ELSE Advanced(Append(q, Advance(q[Len(q)])), n - 1)

\* no task makes more draws than five times this
FewDraws == MaxRealizations * MaxSnapshots

\* the states gone through from state x on, over the draws of a task
Orbit(x) ==
  Advanced(Advanced(Advanced(Advanced(Advanced(<<x>>, FewDraws), FewDraws), FewDraws),
                    FewDraws), FewDraws)

\* the states gone through from every state the seeding can give
RECURSIVE OrbitsFrom(_)
OrbitsFrom(x) ==
  IF x = Modulus THEN <<>> ELSE <<Orbit(x)>> \o OrbitsFrom(x + 1)

Orbits == OrbitsFrom(0)

\* the state of the generator of task k after n draws
StateAfter(k, n) == Orbits[(SeedOf(k) % Modulus) + 1][n + 1]

\* the n-th draw (n = 1, 2, ...) of task k, made below high
DrawOf(k, n, high) == (StateAfter(k, n) \div 2) % high

\* the lines of info.txt that give a lens: those ahead of the first empty line
LinesRead == Cardinality({i \in 1..Len(info) : \A j \in 1..i : ~info[j].blank})

InRealization(k) == pc[k] \in {"lenses", "reorder", "shoot", "tracing", "save"}

\* the draws a task has made when it stands where it stands: the matrix of
\* simulatedCatalog, three draws for every line singleRedshift has read, two
\* for every plane reorderLenses has rolled
DrawsOfRealization == IF mode = "map" THEN 5 * LinesRead ELSE 2 * LinesRead

DrawsOfMatrix == IF mode = "map" THEN 0 ELSE 3 * Realizations * Len(info)

DrawsSoFar(k) ==
  IF pc[k] \in {"start", "catalogs", "subdirectories", "sync", "syncing", "partition",
                "randomize"}
    THEN 0
  ELSE DrawsOfMatrix + (r[k] - first_realization[k]) * DrawsOfRealization
         + (IF InRealization(k) /\ mode = "map" THEN 3 * s[k] ELSE 0)
         + (IF pc[k] \in {"shoot", "tracing", "save"} THEN 2 * s[k] ELSE 0)

\* the realization the tracer of task k was made for
TracedRealization(k) == IF Saved(k) THEN r[k] - 1 ELSE r[k]

\* the plane file for line n (n = 1, 2, ...) of realization rr, worked out from
\* the seed of the task alone
PlaneOf(k, rr, n) ==
  LET before == IF mode = "map"
                  THEN (rr - first_realization[k]) * DrawsOfRealization + 3 * (n - 1)
                  ELSE rr * Len(info) + n - 1
      step == IF mode = "map" THEN 1 ELSE Realizations * Len(info)
  IN PlaneName(
       nbody_realizations[DrawOf(k, before + 1, Len(nbody_realizations)) + 1],
       info[n].snapshot,
       cut_points[DrawOf(k, before + 1 + step, Len(cut_points)) + 1],
       normals[DrawOf(k, before + 1 + 2 * step, Len(normals)) + 1])

\* C14: a task seeds the generator once, before anything else, with
\* settings.seed + its rank (settings.seed without a pool), and never again:
\* the generator is where the draws made since have taken it, the draws made
\* are those of the place the task stands at, and the plane file of every
\* lens is the one that follows from the seed, the rank, the settings and
\* info.txt alone, so that a second run of the task chooses the same files.
ReproducibleDraws ==
  \A k \in Ranks :
    /\ pc[k] = "start" => rng[k] = NoGenerator
    /\ (mode \in {"map", "catalog"} /\ pc[k] # "start") =>
         /\ rng[k].seeds = <<SeedOf(k)>>
         /\ rng[k].state = StateAfter(k, rng[k].draws)
         /\ pc[k] # "failed" => rng[k].draws = DrawsSoFar(k)
         /\ tracer[k].made =>
              \A i \in 1..Len(tracer[k].lenses) :
                tracer[k].lenses[i].file =
                  PlaneOf(k, TracedRealization(k), tracer[k].lenses[i].snapshot)

\* two tasks seeded with 1 and 2 have chosen the planes of their realizations,
\* and not the same ones
ReproducibleDrawsWitness ==
  /\ mode = "map" /\ pool /\ pool_size = 1 /\ settings.seed = 1
  /\ \A k \in Ranks : pc[k] = "done" /\ tracer[k].made
  /\ rng[1].seeds = <<2>> /\ rng[1].draws = 10
  /\ tracer[0].lenses[1].file # tracer[1].lenses[1].file

\* the loop over the realizations has been reached
MatrixDrawn(k) ==
  pc[k] \in {"loop", "lenses", "reorder", "shoot", "tracing", "save", "barrier",
             "waiting", "report", "done"}

\* the entry of realization i and snapshot j (counted from 1) as the three
\* calls of randint drew it before the loop, each call filling a layer
DrawnEntry(k, i, j) ==
  LET layer == Realizations * Len(info)
      n == (i - 1) * Len(info) + j
  IN <<DrawOf(k, n, Len(nbody_realizations)),
       DrawOf(k, layer + n, Len(cut_points)),
       DrawOf(k, 2 * layer + n, Len(normals))>>

\* C15: in simulatedCatalog the randomization matrix is drawn whole before
\* the first realization: when a task makes its first ray tracer the matrix
\* has an entry for every realization, snapshot and kind of choice, every
\* entry is an index into its list of candidates, the matrix stays what was
\* drawn then, and the plane file of the lens of (r, s) is the one its
\* entries name.
RandomizerComplete ==
  \A k \in Ranks : mode = "catalog" =>
    /\ (~MatrixDrawn(k) /\ pc[k] # "failed") => (randomizer[k] = <<>> /\ ~tracer[k].made)
    /\ tracer[k].made => randomizer[k] # <<>>
    /\ (MatrixDrawn(k) \/ randomizer[k] # <<>>) =>
         /\ Len(randomizer[k]) = Realizations
         /\ \A i \in 1..Len(randomizer[k]) :
              /\ Len(randomizer[k][i]) = Len(info)
              /\ \A j \in 1..Len(info) :
                   /\ randomizer[k][i][j] = DrawnEntry(k, i, j)
                   /\ randomizer[k][i][j][1] \in 0..(Len(nbody_realizations) - 1)
                   /\ randomizer[k][i][j][2] \in 0..(Len(cut_points) - 1)
                   /\ randomizer[k][i][j][3] \in 0..(Len(normals) - 1)
         /\ tracer[k].made =>
              \A i \in 1..Len(tracer[k].lenses) :
                LET lens == tracer[k].lenses[i]
                    row == randomizer[k][TracedRealization(k) + 1][lens.snapshot]
                IN lens.file = PlaneName(nbody_realizations[row[1] + 1], lens.snapshot,
                                         cut_points[row[2] + 1], normals[row[3] + 1])

\* two realizations of two snapshots: the second realization is under way and
\* its planes are not those of the first
RandomizerCompleteWitness ==
  /\ mode = "catalog" /\ ~pool /\ Realizations = 2
  /\ pc[0] = "shoot" /\ r[0] = 1
  /\ Len(randomizer[0]) = 2 /\ randomizer[0][1] # randomizer[0][2]
  /\ tracer[0].lenses[1].file[1] = nbody_realizations[randomizer[0][2][1][1] + 1]

\* the outputs of realization rr of task k are on disk
OutputsWritten(k, rr) ==
  IF mode = "map"
    THEN /\ "convergence" \in settings.outputs => FilesOf(k, "conv", rr + 1) # {}
         /\ "shear" \in settings.outputs => FilesOf(k, "shear", rr + 1) # {}
         /\ "omega" \in settings.outputs => FilesOf(k, "omega", rr + 1) # {}
  ELSE \A n \in 1..Len(catalogs) : \E f \in FilesOf(k, "shearcat", rr + 1) : f.file = n

\* task k is through with the realizations it was given
Completed(k) ==
  /\ pc[k] \in {"barrier", "waiting", "report", "done"}
  /\ r[k] = last_realization[k]
  /\ last_realization[k] = LastRealization(k)
  /\ \A rr \in FirstRealization(k)..(LastRealization(k) - 1) : OutputsWritten(k, rr)

\* C16: a task comes to the barrier at the end only when the outputs of its
\* last realization are written, and with a pool no task is past that barrier
\* (the master has not logged the total runtime) unless every task of the
\* pool has completed all the realizations of its range.
FinalBarrier ==
  \A k \in Ranks :
    /\ pc[k] \in {"barrier", "waiting"} => Completed(k)
    /\ pc[k] \in {"report", "done"} =>
         \A j \in Ranks : Completed(j) /\ (pool => pc[j] # "barrier")

\* two tasks of two realizations each: the master is past the barrier, the
\* other task is about to leave it
FinalBarrierWitness ==
  /\ pool /\ pool_size = 1 /\ Realizations = 4 /\ mode = "catalog"
  /\ pc[0] = "report" /\ pc[1] = "waiting"
  /\ \A k \in Ranks : r[k] = 2 * (k + 1) /\ FilesOf(k, "shearcat", 2 * (k + 1)) # {}

\* realization tags of one to five digits
TagsTried == {1, 10, 100, 1000, 9999, 10000}

\* different tags are written differently
TagsDistinct == \A a, b \in TagsTried : a # b => Format04d(a) # Format04d(b)

\* the maps and shear catalogs saved
Outputs == {f \in written : f.kind # "positions"}

\* C17: every saved file has the realization counted from 1, in four digits
\* with zeros ahead, in its name: two writes to the same path are one write,
\* of one task for one realization (of a kind of map, or for an input file),
\* so no two realizations and no two tasks write the same file, whatever the
\* order the tasks run in.
TaggedOutputs ==
  /\ \A f \in Outputs :
       /\ f.path[4] = Format04d(f.tag) /\ Len(f.path[4]) = 4
       /\ f.tag \in (FirstRealization(f.by) + 1)..LastRealization(f.by)
       /\ f.path[1] = f.subdir /\ f.path[2] = f.kind
  /\ \A f, g \in Outputs :
       /\ (f.path = g.path) =>
            (f.tag = g.tag /\ f.by = g.by /\ f.kind = g.kind /\ f.file = g.file)
       /\ (f.kind = g.kind /\ f.file = g.file /\ f.tag # g.tag) => f.path # g.path
  /\ TagsDistinct

\* two tasks have saved the convergence maps of two realizations each, the
\* last of them tagged 0004
TaggedOutputsWitness ==
  /\ mode = "map" /\ pool /\ pool_size = 1 /\ Realizations = 4
  /\ \A k \in Ranks : pc[k] = "done"
  /\ Cardinality({f.path : f \in {g \in written : g.kind = "conv"}}) = 4
  /\ \E f \in written : f.by = 1 /\ f.kind = "conv" /\ f.path[4] = <<0, 0, 0, 4>>

\* the places of the galaxies of input file n in the bundle of rays, counted
\* from 1: after those of the files before it
FirstOf(n) == SumSeq([m \in 1..(n - 1) |-> catalogs[m].n]) + 1

LastOf(n) == SumSeq([m \in 1..n |-> catalogs[m].n])

\* C18: in simulatedCatalog the galaxies of input file n stand in the bundle
\* of rays at the places after those of the files before it, the ranges of
\* the files follow one another, are disjoint and cover every ray once, and
\* the shear catalog saved for file n has the rows of exactly those rays, in
\* order.
CatalogSplit ==
  \A k \in Ranks :
    (mode = "catalog" /\ tracer[k].made /\ tracer[k].rays # <<>>) =>
      LET rays == tracer[k].rays
      IN /\ Len(rays) = settings.total_num_galaxies
         /\ Len(catalogs) > 0 /\ FirstOf(1) = 1 /\ LastOf(Len(catalogs)) = Len(rays)
         /\ \A n \in 1..(Len(catalogs) - 1) : FirstOf(n + 1) = LastOf(n) + 1
         /\ \A i \in 1..Len(rays) :
              Cardinality({n \in 1..Len(catalogs) : i \in FirstOf(n)..LastOf(n)}) = 1
         /\ \A n \in 1..Len(catalogs) : \A i \in FirstOf(n)..LastOf(n) :
              /\ rays[i].theta = <<i - FirstOf(n) + 1, n>>
              /\ rays[i].target = catalogs[n].z
         /\ Saved(k) =>
              \A n \in 1..Len(catalogs) :
                LET files == {f \in FilesOf(k, "shearcat", r[k]) : f.file = n}
                IN /\ Cardinality(files) = 1
                   /\ \A f \in files :
                        f.data = [i \in 1..catalogs[n].n |->
                                    <<Shear1(rays[FirstOf(n) + i - 1].jacobian),
                                      Shear2(rays[FirstOf(n) + i - 1].jacobian)>>]

\* two input files at different redshifts behind deflecting planes: the two
\* catalogs saved have one row each, and not the same row
CatalogSplitWitness ==
  /\ mode = "catalog" /\ Saved(0) /\ Len(catalogs) = 2
  /\ catalogs[1].z # catalogs[2].z
  /\ \E f, g \in FilesOf(0, "shearcat", r[0]) :
       f.file = 1 /\ g.file = 2 /\ Len(f.data) = 1 /\ Len(g.data) = 1 /\ f.data # g.data

\* _subdirectories raised
SubdirectoriesFailed(k) ==
  /\ pc[k] = "failed"
  /\ err[k] \in {"ZeroDivisionError", "AssertionError: realizations in each subdirectory"}

\* _subdirectories returned a list
SubdirectoriesReturned(k) ==
  /\ pc[k] \notin {"start", "catalogs", "subdirectories"}
  /\ ~CatalogsRefused(k) /\ ~SubdirectoriesFailed(k)

\* what is said of _subdirectories(num, per) and of the saving, for task k
Bucketed(k, num, per) ==
  LET names == catalog_subdirectory[k]
  IN /\ (per # 0 /\ num % per # 0) =>
          /\ SubdirectoriesFailed(k)
          /\ err[k] = "AssertionError: realizations in each subdirectory"
     /\ num = per => (SubdirectoriesReturned(k) /\ names = <<>>)
     /\ (per # 0 /\ num % per = 0 /\ num # per) =>
          /\ SubdirectoriesReturned(k)
          /\ Len(names) = num \div per
          /\ \A c \in 1..Len(names) : names[c] = <<(c - 1) * per + 1, c * per>>
          /\ \A tag \in 1..num :
               Cardinality({c \in 1..Len(names) : tag \in names[c][1]..names[c][2]}) = 1
     /\ \A f \in written : (f.kind = "shearcat" /\ f.by = k) =>
          IF names = <<>> THEN f.subdir = <<>>
          ELSE /\ ((f.tag - 1) \div per) + 1 \in 1..Len(names)
               /\ f.subdir = names[((f.tag - 1) \div per) + 1]
               /\ f.tag \in f.subdir[1]..f.subdir[2]

\* C19: _subdirectories(R, k) fails its assertion when k does not divide R,
\* returns no subdirectory when k = R, and otherwise R/k names of the ranges
\* c*k+1 to (c+1)*k, disjoint and covering 1..R; every realization is saved
\* in the subdirectory whose range holds its tag, at an index within the list.
SubdirectoryBuckets ==
  \A k \in Ranks :
    (mode = "catalog" /\ (SubdirectoriesFailed(k) \/ SubdirectoriesReturned(k))) =>
      Bucketed(k, Realizations, RealizationsInSubdir)

\* the same of subdirectories of one realization or more
SubdirectoryBucketsOfSomeSize ==
  \A k \in Ranks :
    (mode = "catalog" /\ RealizationsInSubdir >= 1
       /\ (SubdirectoriesFailed(k) \/ SubdirectoriesReturned(k))) =>
      Bucketed(k, Realizations, RealizationsInSubdir)

\* four realizations in subdirectories of two, by two tasks: the last one is
\* saved in 3-4
SubdirectoryBucketsReached ==
  /\ mode = "catalog" /\ pool /\ Realizations = 4 /\ RealizationsInSubdir = 2
  /\ \A k \in Ranks : pc[k] = "done"
  /\ \E f \in written : f.kind = "shearcat" /\ f.tag = 4 /\ f.subdir = <<3, 4>>

\* no realizations and no size of subdirectory given: _subdirectories(0, 0)
\* raises where it is said to return no subdirectory
SubdirectoriesOfNoneRaise ==
  /\ mode = "catalog" /\ Realizations = 0 /\ ~settings.has_realizations_per_subdirectory
  /\ pc[0] = "failed" /\ err[0] = "ZeroDivisionError"

\* the lines of info.txt the loop of task k has taken up: those that gave a
\* lens, and the one the task failed on while working out the distance
LinesTaken(k) ==
  IF pc[k] = "failed" /\ err[k] = "AttributeError" THEN s[k] + 1 ELSE s[k]

\* line n has given a lens of its snapshot, distance, unit and redshift
LensOfLine(k, n) ==
  \E i \in 1..Len(tracer[k].lenses) :
    LET lens == tracer[k].lenses[i]
    IN /\ lens.snapshot = info[n].snapshot
       /\ lens.redshift = info[n].redshift
       /\ lens.distance = info[n].distance
       /\ lens.unit = info[n].unit

\* C20: every line snapshot=..,distance=<float> <unit>,redshift=.. of
\* info.txt gives a lens of that snapshot and redshift at a distance of
\* <float> in the unit the line names, Mpc/h or any other.
ManifestUnits ==
  \A k \in Ranks :
    (mode \in {"map", "catalog"} /\ tracer[k].made) =>
      \A n \in 1..LinesTaken(k) : ~info[n].blank => LensOfLine(k, n)

\* the same of the lines in Mpc/h
ManifestUnitsOfModel ==
  \A k \in Ranks :
    (mode \in {"map", "catalog"} /\ tracer[k].made) =>
      \A n \in 1..LinesTaken(k) :
        (~info[n].blank /\ info[n].unit = "Mpc/h") => LensOfLine(k, n)

\* a second line in Mpc: the task has the lens of the first line and fails on
\* the second
UnitLookupFails ==
  /\ mode = "map" /\ Len(info) = 2
  /\ info[1].unit = "Mpc/h" /\ info[2].unit = "Mpc"
  /\ pc[0] = "failed" /\ err[0] = "AttributeError"
  /\ s[0] = 1 /\ Len(tracer[0].lenses) = 1 /\ tracer[0].lenses[1].unit = "Mpc/h"

\* the indices n (from 0) with cut_redshifts[n] <= z
CutsUpTo(z) == {n \in 0..(Len(cut_redshifts) - 1) : cut_redshifts[n + 1] <= z}

\* the lens is of the collection of the largest such index, and there is one
RightCollection(lens) ==
  /\ CutsUpTo(lens.redshift) # {}
  /\ \A n \in CutsUpTo(lens.redshift) : n <= lens.collection
  /\ lens.collection \in CutsUpTo(lens.redshift)

\* C21: in singleRedshift, for every line of info.txt of every realization,
\* the collection index c of the draws and of the plane path is defined and is
\* the largest n with cut_redshifts[n] <= lens_redshift, never a value kept
\* from an earlier line or realization; with cut_redshifts = [0.0] it is 0.
CollectionSelected ==
  \A k \in Ranks :
    mode = "map" =>
      /\ err[k] # "UnboundLocalError"
      /\ tracer[k].made =>
           \A i \in 1..Len(tracer[k].lenses) : RightCollection(tracer[k].lenses[i])
      /\ cut_redshifts = <<0>> => c_index[k] \in {Unbound, 0}

\* the same where the first cut redshift is 0, as it is of one collection
CollectionSelectedFromZero ==
  cut_redshifts[1] = 0 => CollectionSelected

\* a lens below every cut redshift added with the c of the line before it
CollectionCarriedOver ==
  /\ mode = "map" /\ tracer[0].made /\ Len(tracer[0].lenses) = 2
  /\ \E i \in 1..2 :
       LET lens == tracer[0].lenses[i]
       IN CutsUpTo(lens.redshift) = {} /\ lens.collection = Len(cut_redshifts) - 1

\* no cut redshift at or below the first line: c is read unbound
CollectionUnbound ==
  /\ mode = "map" /\ pc[0] = "failed" /\ err[0] = "UnboundLocalError"
  /\ s[0] = 0 /\ r[0] = 0 /\ CutsUpTo(info[1].redshift) = {}

\* where a task is ahead of the barrier that follows the subdirectories
AheadOfSync == {"start", "catalogs", "subdirectories", "sync", "syncing"}

\* the subdirectories task k has named
Named(k) == {catalog_subdirectory[k][c] : c \in 1..Len(catalog_subdirectory[k])}

\* C22: in simulatedCatalog with a pool only the master makes the bucket
\* subdirectories and a barrier lies between that and the loop over the
\* realizations: in every interleaving no task saves a shear catalog into a
\* subdirectory that does not exist yet.
SubdirectoriesBeforeUse ==
  mode = "catalog" =>
    /\ \A k \in Ranks : err[k] # "IOError"
    /\ \A f \in Outputs : f.subdir # <<>> => f.subdir \in made
    /\ pc[0] \in {"start", "catalogs", "subdirectories"} => made = {}
    /\ made \subseteq Named(0)
    /\ \A k \in Ranks :
         pc[k] \notin AheadOfSync \cup {"failed"} =>
           /\ Named(k) \subseteq made
           /\ pool => arrived[1] = Ranks

\* a worker has saved a catalog in the second subdirectory, made by the
\* master, which is still at its first realization
SubdirectoriesBeforeUseWitness ==
  /\ mode = "catalog" /\ pool /\ pool_size = 1
  /\ Realizations = 4 /\ RealizationsInSubdir = 2
  /\ made = {<<1, 2>>, <<3, 4>>}
  /\ r[0] = 0 /\ pc[0] \notin AheadOfSync \cup {"failed"}
  /\ \E f \in Outputs : f.by = 1 /\ f.subdir = <<3, 4>>

\* the particles between the limits of the snapshot of task k
ParticleRange(k) ==
  IF snap[k].first.none \/ snap[k].last.none
    THEN 0..(snap[k].size - 1)
    ELSE snap[k].first.index..(snap[k].last.index - 1)

\* the tasks whose limits are set
Limited == {k \in Ranks : snap[k].set}

\* the particles a task has read
Read(k) == {snap[k].positions[i] : i \in 1..Len(snap[k].positions)}

\* C23: FastPMSnapshot.setLimits with a pool of Nt = pool.size+1 tasks and
\* Np particles gives task k the range [k*(Np//Nt), (k+1)*(Np//Nt)), the last
\* task Np % Nt more: the ranges are pairwise disjoint and their union is
\* [0, Np), for every Np >= 0 and Nt >= 1; with no pool both limits are None
\* and everything is read.
LimitsPartition ==
  mode = "snapshot" =>
    LET Nt == pool_size + 1
        Np == snap[0].size
    IN /\ \A k \in Limited :
            IF pool
              THEN /\ ~snap[k].first.none /\ ~snap[k].last.none
                   /\ snap[k].first.index = k * (Np \div Nt)
                   /\ snap[k].last.index =
                        (k + 1) * (Np \div Nt) + (IF k = Nt - 1 THEN (Np % Nt) ELSE 0)
              ELSE snap[k].first.none /\ snap[k].last.none
       /\ \A j \in Limited, k \in Limited : j # k => ParticleRange(j) \cap ParticleRange(k) = {}
       /\ Limited = Ranks => UNION {ParticleRange(k) : k \in Ranks} = 0..(Np - 1)
       /\ \A k \in Ranks :
            pc[k] = "positions" =>
              /\ Read(k) = ParticleRange(k)
              /\ Len(snap[k].positions) = Cardinality(ParticleRange(k))

\* three tasks have read a file of five particles: one, one and three
LimitsPartitionWitness ==
  /\ mode = "snapshot" /\ pool /\ pool_size = 2 /\ snap[0].size = 5
  /\ \A k \in Ranks : pc[k] = "positions"
  /\ snap[0].positions = <<0>> /\ snap[1].positions = <<1>>
  /\ snap[2].positions = <<2, 3, 4>>

\* fewer particles than tasks: the last task reads them all, the others none
LimitsOfFewParticles ==
  /\ mode = "snapshot" /\ pool /\ pool_size = 2 /\ snap[0].size = 2
  /\ \A k \in Ranks : pc[k] = "positions"
  /\ snap[0].positions = <<>> /\ snap[1].positions = <<>>
  /\ snap[2].positions = <<0, 1>>

\* no pool: no limit, all read
LimitsOfNoPool ==
  /\ mode = "snapshot" /\ ~pool /\ snap[0].size = 3
  /\ pc[0] = "positions" /\ snap[0].first.none /\ snap[0].last.none
  /\ snap[0].positions = <<0, 1, 2>>

====
